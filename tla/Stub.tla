-------------------------------- MODULE Stub --------------------------------
(***************************************************************************)
(* One typed call, from rpc_call_<name> of the caller's node through the   *)
(* server's rpc_handle_request and back: the code rpc_gen.c generates for  *)
(* the methods of an xdef file, over the TLV codec of rpc_tlv.c.  CcRpc    *)
(* models what happens between the two; here a call reaches the server at  *)
(* most once, and may fail before or after it did.                         *)
(*                                                                         *)
(* Bytes are 0 .. Base-1 and buffers are sequences of them.  A field of a  *)
(* parameter or result structure is [ptr, val]: the block it points to (0  *)
(* for NULL, and for a field with no block) and the bytes it stands for.   *)
(* A node's heap is the set of its allocated blocks.  rpc_i32_t is left    *)
(* out: RPC_EMIT_FIELD_i32 calls tlv_write_i32, which does not exist.      *)
(***************************************************************************)
EXTENDS Integers, FiniteSetsExt, SequencesExt

CONSTANTS
  Method,           \* the methods of the xdef file
  Params, Results,  \* Params[m], Results[m]: the types of m's fields
  Strings, Blobs,   \* contents of string and of bytes fields
  Words,            \* the four bytes of u32 fields, as memcpy copies them
  Base              \* 256 in the code: the range of a byte

Byte == 0 .. Base - 1
Type == {"u32", "string", "bytes"}

ASSUME StubAssumption ==
  /\ Params \in [Method -> Seq(Type)] /\ Results \in [Method -> Seq(Type)]
  /\ Base \in Nat /\ Base > 4
  /\ Strings \subseteq Seq(Byte \ {0})
  /\ Blobs \subseteq Seq(Byte)
  /\ Words \subseteq [1 .. 4 -> Byte]

VARIABLES
  pc,          \* where the caller is
  m, in,       \* the method called and its parameter structure
  tlv_size,    \* the size of tlvbuf
  tlvbuf,      \* the bytes written to it
  resp, st,    \* the response's bytes and the call's status
  out,         \* the caller's result structure
  mine,        \* the caller's heap
  alive,       \* is the server running?
  param_buf, result_buf,  \* the server's static buffers
  theirs,      \* the server's heap
  ran,         \* history: the handler ran for this call
  misfreed     \* history: heap_free was given a block not allocated

client == <<m, in, tlv_size, tlvbuf>>
server == <<alive, param_buf, result_buf, theirs, ran>>
vars   == <<pc, client, resp, st, out, mine, server, misfreed>>

OK             == 0
INVALID_PARAMS == 2
INTERNAL_ERROR == 3
TIMEOUT        == 5

NULL == [ptr |-> 0, val |-> <<>>]

(* The memset at the start of both parsers. *)
Cleared(types) ==
  [i \in DOMAIN types |->
     IF types[i] = "u32" THEN [ptr |-> 0, val |-> <<0, 0, 0, 0>>] ELSE NULL]

Init ==
  /\ pc = "idle" /\ m \in Method /\ in = <<>>
  /\ tlv_size = 0 /\ tlvbuf = <<>> /\ resp = <<>> /\ st = OK
  /\ out = <<>> /\ mine = {}
  /\ alive = TRUE /\ param_buf = <<>> /\ result_buf = <<>>
  /\ theirs = {} /\ ran = FALSE
  /\ misfreed = FALSE

-----------------------------------------------------------------------------
(* The codec. *)
Tag(type) == CASE type = "u32" -> 1 [] type = "string" -> 2 [] type = "bytes" -> 3

tlv_write(type, val) ==
  <<Tag(type), Len(val) % Base, (Len(val) \div Base) % Base>> \o val

(* RPC_EMIT_FIELD_<type>: a NULL string leaves no trace. *)
EmitField(type, f) ==
  IF type = "string" /\ f.ptr = 0 THEN <<>> ELSE tlv_write(type, f.val)

Emit(types, struct) ==
  FlattenSeq([i \in DOMAIN types |-> EmitField(types[i], struct[i])])

(* Variants named X_... change X the way a slip in the code would; none is *)
(* part of the specification.                                              *)
rpc_estimate_field_NoHeader(type, f) ==
  IF type = "u32" THEN 7 ELSE IF type = "bytes" THEN 3 + Len(f.val) ELSE Len(f.val)

rpc_estimate_field(type, f) == IF type = "u32" THEN 7 ELSE 3 + Len(f.val)

rpc_estimate_param_size(types, struct) ==
  LET sz[i \in 0 .. Len(types)] ==
        IF i = 0 THEN 0 ELSE sz[i - 1] + rpc_estimate_field(types[i], struct[i])
  IN  sz[Len(types)]

tlv_read_OneByteLen(buf) ==
  LET len == buf[2] IN
  IF Len(buf) < 3 \/ Len(buf) < 3 + len
  THEN [used |-> 0]
  ELSE [used |-> 3 + len, tag |-> buf[1], val |-> SubSeq(buf, 4, 3 + len)]

tlv_read(buf) ==
  LET len == buf[2] + Base * buf[3] IN
  IF Len(buf) < 3 \/ Len(buf) < 3 + len
  THEN [used |-> 0]
  ELSE [used |-> 3 + len, tag |-> buf[1], val |-> SubSeq(buf, 4, 3 + len)]

(* A string is read up to its first 0. *)
CString(val) ==
  SubSeq(val, 1, Min({Len(val)} \cup {i - 1 : i \in {j \in DOMAIN val : val[j] = 0}}))

(* heap_malloc: a block that is not allocated. *)
Fresh(heap) == Min((1 .. Cardinality(heap) + 1) \ heap)

(* PARSE_FIELD_<type> of field i: p is the progress of the parser.         *)
ParseField(types, p, i) ==
  LET r == tlv_read(p.rest)
      b == Fresh(p.heap)
      bad == \/ ~p.ok
             \/ r.used = 0
             \/ r.tag # Tag(types[i])
             \/ types[i] = "u32" /\ Len(r.val) # 4
      rest == SubSeq(p.rest, r.used + 1, Len(p.rest))
  IN CASE bad -> [p EXCEPT !.ok = FALSE]
       [] ~bad /\ types[i] = "u32" ->
            [p EXCEPT !.rest = rest, !.struct[i].val = r.val]
       [] ~bad /\ types[i] # "u32" ->
            [p EXCEPT !.rest = rest, !.heap = p.heap \cup {b},
                      !.struct[i] = [ptr |-> b,
                                     val |-> IF types[i] = "string"
                                             THEN CString(r.val) ELSE r.val]]

(* rpc_param_parse_<name>, rpc_result_parse_<name>: the first field that   *)
(* cannot be read ends it, and the fields already read keep their blocks;  *)
(* bytes after the last field are ignored.                                 *)
Parse(types, buf, heap) ==
  LET p[i \in 0 .. Len(types)] ==
        IF i = 0 THEN [ok |-> TRUE, rest |-> buf, heap |-> heap, struct |-> Cleared(types)]
        ELSE ParseField(types, p[i - 1], i)
  IN  p[Len(types)]

(* free_param_<name>, free_result_<name> *)
Blocks(struct) == {struct[i].ptr : i \in DOMAIN struct} \ {0}

Misfree(struct, heap) ==
  \/ Blocks(struct) \ heap # {}
  \/ \E i, j \in DOMAIN struct : i # j /\ struct[i].ptr = struct[j].ptr /\ struct[i].ptr # 0

-----------------------------------------------------------------------------
Values(type) == CASE type = "u32" -> Words [] type = "string" -> Strings
                  [] type = "bytes" -> Blobs

(* The structures a program may fill in; only a string may be NULL. *)
Fields(type) ==
  {[ptr |-> IF type = "u32" THEN 0 ELSE 1, val |-> v] : v \in Values(type)}
    \cup IF type = "string" THEN {NULL} ELSE {}

Structs(types) ==
  {s \in [DOMAIN types -> UNION {Fields(types[i]) : i \in DOMAIN types}] :
     \A i \in DOMAIN types : s[i] \in Fields(types[i])}

(* rpc_call_<name>(&p, &r, ...) with r cleared, as the manual does it ...   *)
Call(x, p) ==
  /\ pc = "idle"
  /\ m' = x /\ in' = p /\ ran' = FALSE
  /\ out' = Cleared(Results[x])
  /\ tlv_size' = rpc_estimate_param_size(Params[x], p)
  /\ resp' = <<>>
  /\ UNCHANGED <<alive, param_buf, result_buf, theirs, misfreed>>

StubEncode(x, p) ==
  /\ Call(x, p)
  /\ tlvbuf' = Emit(Params[x], p)
  /\ mine' = {1, 2}  \* tlvbuf and resp
  /\ pc' = "calling"
  /\ st' = OK

(* ... where RPC_ALLOC may find no memory for tlvbuf or for resp. *)
StubNoMem(x, p) ==
  /\ Call(x, p)
  /\ tlvbuf' \in {<<>>, Emit(Params[x], p)}
  /\ st' = -1
  /\ pc' = "returned"
  /\ UNCHANGED mine

-----------------------------------------------------------------------------
ResultBuf_Stale(x) ==
  IF Len(result_buf) = Len(Results[x]) THEN result_buf ELSE Cleared(Results[x])

(* memset(result_buf, 0, sizeof(result_buf)) *)
ResultBuf(x) == Cleared(Results[x])

(* A handler sets some fields of its result, with blocks of their own, and *)
(* leaves the others as it finds them.                                     *)
SetField(types, result, a, i) ==
  IF types[i] = "u32" THEN [a EXCEPT !.struct[i] = result[i]]
  ELSE IF result[i].ptr = 0 THEN a
  ELSE [struct |-> [a.struct EXCEPT ![i] = [ptr |-> Fresh(a.heap), val |-> result[i].val]],
        heap |-> a.heap \cup {Fresh(a.heap)}]

Handler(types, found, result, heap) ==
  LET a[i \in 0 .. Len(types)] ==
        IF i = 0 THEN [struct |-> found, heap |-> heap]
        ELSE SetField(types, result, a[i - 1], i)
  IN  a[Len(types)]

(* rpc_handle_request: the request's parameters do not parse ... *)
RequestInvalid ==
  LET p == Parse(Params[m], tlvbuf, theirs) IN
  /\ pc = "calling" /\ alive
  /\ ~p.ok
  /\ param_buf' = p.struct
  /\ result_buf' = ResultBuf(m)
  /\ st' = INVALID_PARAMS
  /\ theirs' = (p.heap \ Blocks(param_buf')) \ Blocks(result_buf')
  /\ misfreed' = (misfreed \/ Misfree(param_buf' \o result_buf', p.heap))
  /\ pc' = "answered"
  /\ UNCHANGED <<client, resp, out, mine, alive, ran>>

(* ... or they do, and the handler returns rc and result.  The buffers     *)
(* keep what they point to after it has been freed.                        *)
RequestHandled(rc, result) ==
  LET p == Parse(Params[m], tlvbuf, theirs)
      h == Handler(Results[m], ResultBuf(m), result, p.heap)
  IN
  /\ pc = "calling" /\ alive
  /\ p.ok
  /\ ran' = TRUE
  /\ param_buf' = p.struct
  /\ result_buf' = h.struct
  /\ st' = IF rc = 0 THEN OK ELSE INTERNAL_ERROR
  /\ resp' = IF rc = 0 THEN Emit(Results[m], h.struct) ELSE <<>>
  /\ theirs' = (h.heap \ Blocks(param_buf')) \ Blocks(result_buf')
  /\ misfreed' = (misfreed \/ Misfree(param_buf' \o result_buf', h.heap))
  /\ pc' = "answered"
  /\ UNCHANGED <<client, out, mine, alive>>

(* heap_malloc is not checked in tlv_read_string and tlv_read_bytes: with  *)
(* no memory the process dies of a NULL pointer.                           *)
Allocates(types, buf) == Parse(types, buf, {}).heap # {}

ServerDies ==
  /\ pc = "calling" /\ alive
  /\ Allocates(Params[m], tlvbuf)
  /\ alive' = FALSE
  /\ param_buf' = <<>> /\ result_buf' = <<>> /\ theirs' = {}
  /\ UNCHANGED <<pc, client, resp, st, out, mine, ran, misfreed>>

(* rpc_call_with_tlv returns with the response ... *)
CallAnswered ==
  /\ pc = "answered"
  /\ pc' = "parse"
  /\ UNCHANGED <<client, resp, st, out, mine, server, misfreed>>

(* ... or without one, whether or not the server handled the request. *)
CallFails(status) ==
  /\ pc \in {"calling", "answered"}
  /\ pc' = "parse"
  /\ st' = status
  /\ resp' = <<>>
  /\ UNCHANGED <<client, out, mine, server, misfreed>>

-----------------------------------------------------------------------------
StubReturn_IgnoresParse ==
  LET r == Parse(Results[m], resp, mine) IN
  /\ pc = "parse"
  /\ pc' = "returned"
  /\ out' = IF st = OK THEN r.struct ELSE out
  /\ st' = st
  /\ mine' = (IF st = OK THEN r.heap ELSE mine) \ {1, 2}
  /\ UNCHANGED <<client, resp, server, misfreed>>

(* The stub parses the result of a call that succeeded, frees tlvbuf and   *)
(* resp, and returns.                                                      *)
StubReturn ==
  LET r == Parse(Results[m], resp, mine) IN
  /\ pc = "parse"
  /\ pc' = "returned"
  /\ out' = IF st = OK THEN r.struct ELSE out
  /\ st' = IF st = OK /\ ~r.ok THEN -1 ELSE st
  /\ mine' = (IF st = OK THEN r.heap ELSE mine) \ {1, 2}
  /\ UNCHANGED <<client, resp, server, misfreed>>

(* The same unchecked heap_malloc, at the caller. *)
ClientDies ==
  /\ pc = "parse" /\ st = OK
  /\ Allocates(Results[m], resp)
  /\ pc' = "dead"
  /\ mine' = {} /\ out' = <<>>
  /\ UNCHANGED <<client, resp, st, server, misfreed>>

(* The caller's free_result_<name>(&r), whatever the call returned; the    *)
(* call's variables go out of scope.                                       *)
FreeResult ==
  /\ pc = "returned"
  /\ pc' = "idle"
  /\ mine' = mine \ Blocks(out)
  /\ misfreed' = (misfreed \/ Misfree(out, mine))
  /\ in' = <<>> /\ tlv_size' = 0 /\ tlvbuf' = <<>>
  /\ resp' = <<>> /\ st' = OK /\ out' = <<>> /\ ran' = FALSE
  /\ UNCHANGED <<m, alive, param_buf, result_buf, theirs>>

Next ==
  \/ \E x \in Method : \E p \in Structs(Params[x]) : StubEncode(x, p) \/ StubNoMem(x, p)
  \/ RequestInvalid
  \/ \E rc \in {0, -1} : \E result \in Structs(Results[m]) : RequestHandled(rc, result)
  \/ ServerDies
  \/ CallAnswered
  \/ \E status \in {-1, TIMEOUT} : CallFails(status)
  \/ StubReturn
  \/ ClientDies
  \/ FreeResult

Spec == Init /\ [][Next]_vars

-----------------------------------------------------------------------------
ValuesOf(struct) == [i \in DOMAIN struct |-> struct[i].val]

(* Every value's length fits in the two bytes tlv_write has for it. *)
TwoByteLengths(struct) == \A i \in DOMAIN struct : Len(struct[i].val) < Base * Base

SameParams ==
  /\ ValuesOf(param_buf) = ValuesOf(in)
  /\ \A i \in DOMAIN in : Params[m][i] = "string" => in[i].ptr # 0

(***************************************************************************)
(* When no value is longer than a length field can say, a handler only     *)
(* runs on the parameters the caller passed, field for field: what the     *)
(* emitters wrote, the parser reads back, and a request that cannot be     *)
(* read back (a NULL string) never reaches the handler.                    *)
(***************************************************************************)
ParamsArrive == ran /\ TwoByteLengths(in) => SameParams

(***************************************************************************)
(* The manual's account of INVALID_PARAMS: a TLV that is not valid for the *)
(* method is refused.  So, whatever the lengths, a handler only runs on    *)
(* the parameters the caller passed.                                       *)
(***************************************************************************)
AnyParamsArrive == ran => SameParams

(***************************************************************************)
(* A stub that returns 0 ran the handler, and gives the caller the result  *)
(* the handler left, no field missing, when no value of it is longer than  *)
(* a length field can say.                                                 *)
(***************************************************************************)
ResultsReturn ==
  pc = "returned" /\ st = OK =>
    /\ ran
    /\ TwoByteLengths(result_buf) =>
         /\ ValuesOf(out) = ValuesOf(result_buf)
         /\ \A i \in DOMAIN out : Results[m][i] # "u32" => out[i].ptr \in mine

(***************************************************************************)
(* The generated stub never writes more parameter bytes than the estimate  *)
(* it allocated tlvbuf with.                                               *)
(***************************************************************************)
FitsBuffer == Len(tlvbuf) <= tlv_size

(***************************************************************************)
(* Over any sequence of calls, failed ones included, every block of a      *)
(* parameter, a result or a buffer is freed exactly once: none is left     *)
(* when the caller is done, none is freed twice, although the server's     *)
(* static buffers still hold the pointers of the previous request.         *)
(***************************************************************************)
HeapBalanced ==
  /\ ~misfreed
  /\ pc = "idle" => mine = {}
  /\ pc # "calling" => theirs = {}
=============================================================================
