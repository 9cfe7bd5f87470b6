------------------------------- MODULE CcRpc -------------------------------
(***************************************************************************)
(* The runtime of ccRPC: rpc.c over the Linux port rpc_port.c.             *)
(*                                                                         *)
(* A node is one process with its own globals (g_rpc_lock, g_next_seq,     *)
(* g_pending, g_methods, g_transport_map).  Application threads call       *)
(* rpc_call_with_tlv; every transport has a poll thread that receives      *)
(* bytes and hands them to rpc_on_data.  Two transports are the ends of    *)
(* one connection.  Messages travel whole here: how bytes become messages  *)
(* is the subject of module Reasm.                                         *)
(*                                                                         *)
(* What happens between two operations on g_rpc_lock is one step, except   *)
(* where the code blocks with the lock held (send, and recv in polling     *)
(* mode): there the lock is a variable and the step is split.              *)
(***************************************************************************)
EXTENDS Integers, Sequences

CONSTANTS
  Node,        \* processes
  Caller,      \* application threads
  Transport,   \* struct rpc_transport_class objects, one poll thread each
  Name,        \* method names
  home,        \* home[c]: the node thread c runs in
  owner,       \* owner[t]: the node transport t belongs to
  peer,        \* peer[t]: the transport at the other end of t's connection
  NameLen,     \* strlen of a method name
  RespLen,     \* length of the TLV a method's result encodes to
  METHOD_LEN,  \* sizeof(method), 128 in the code
  BufSize,     \* *out_len as the caller passes it
  SeqMax,      \* UINT32_MAX in the code
  ChanCap,     \* messages a connection holds per direction before send blocks
  Polled,      \* transports read with rpc_on_data(t, NULL, 0)
  Binds,       \* <<node, name, transport>>: what the mains bind
  Registers,   \* <<node, name>>: what rpc_register_all registers
  Faults,      \* what may fail: "alloc" (heap or waiter), "link"
  MaxCalls,    \* bound: calls made by each caller
  Null         \* NULL, and "no thread" for a free lock

ASSUME TopologyAssumption ==
  /\ home \in [Caller -> Node]
  /\ owner \in [Transport -> Node]
  /\ peer \in [Transport -> Transport]
  /\ \A t \in Transport : peer[peer[t]] = t /\ owner[peer[t]] # owner[t]
  /\ Polled \subseteq Transport
  /\ Binds \subseteq {x \in Node \X Name \X Transport : owner[x[3]] = x[1]}
  /\ Registers \subseteq Node \X Name
  /\ Faults \subseteq {"alloc", "link"}
  /\ Caller \cap Transport = {}

ASSUME SizeAssumption ==
  /\ NameLen \in [Name -> Nat]
  /\ \A m \in Name : NameLen[m] < 65536  \* method_len is a uint16_t
  /\ RespLen \in [Name -> Nat]
  /\ METHOD_LEN \in Nat \ {0}
  /\ BufSize \in Nat
  /\ SeqMax \in Nat \ {0}
  /\ ChanCap \in Nat \ {0}
  /\ MaxCalls \in Nat

ASSUME NullAssumption ==
  Null \notin Node \cup Caller \cup Transport \cup Name \cup (-4 .. 5) \cup (1 .. SeqMax)

(* rpc_status_t *)
RPC_STATUS_OK               == 0
RPC_STATUS_METHOD_NOT_FOUND == 1
RPC_STATUS_INVALID_PARAMS   == 2
RPC_STATUS_INTERNAL_ERROR   == 3
RPC_STATUS_TRANSPORT_ERROR  == 4
RPC_STATUS_TIMEOUT          == 5
rpc_status_t == 0 .. 5

SeqNo  == 1 .. SeqMax
Thread == Caller \cup Transport

(* A call is identified by its thread and its ordinal among that thread's. *)
CallId == Caller \X (1 .. MaxCalls)

(***************************************************************************)
(* A message: struct rpc_header (msg_len is len, method_len is mlen) and   *)
(* its payload.  The payload's content is the identity of the call it      *)
(* belongs to: the parameters of call id, or the result computed for them. *)
(***************************************************************************)
Message ==
  [status : rpc_status_t, seq : SeqNo, mlen : Nat, name : Name \cup {Null},
   id : CallId, len : Nat]

(***************************************************************************)
(* The locals of rpc_call_with_tlv, struct pending_call and its waiter:    *)
(* done, status and len (resp_len) are written by the poll thread, signaled*)
(* is the waiter's flag, wait_ret what rpc_waiter_wait returned.  from is  *)
(* the call whose answer was copied into the buffer.                       *)
(***************************************************************************)
CallState ==
  [name : Name \cup {Null}, trans : Transport \cup {Null},
   seq : SeqNo \cup {Null},
   done : BOOLEAN, status : rpc_status_t, len : Nat,
   from : CallId \cup {Null}, signaled : BOOLEAN, wait_ret : {0, -1}]

NewCall(m, t) ==
  [name |-> m, trans |-> t, seq |-> Null,
   done |-> FALSE, status |-> RPC_STATUS_OK, len |-> 0,
   from |-> Null, signaled |-> FALSE, wait_ret |-> 0]

VARIABLES
  lock,             \* g_rpc_lock of each node: the thread that holds it
  g_next_seq, g_pending, g_methods, g_transport_map,
  cpc,              \* where each caller is in rpc_call_with_tlv
  call,             \* its CallState
  ncalls,           \* calls it has begun
  ppc,              \* where each poll thread is in rpc_on_data
  inbox,            \* messages received and not yet dispatched
  reply,            \* response being sent by rpc_send_response_tlv
  wire,             \* wire[t]: messages in flight towards t
  up,               \* is t's connection open
  ret,              \* history: what each call returned
  issued,           \* history: the calls of each node that drew a number
  execs,            \* history: how often the handler ran for a call
  refused           \* history: calls given up before the handler

nodeVars   == <<g_next_seq, g_pending, g_methods, g_transport_map>>
callerVars == <<cpc, call, ncalls, ret>>
pollVars   == <<ppc, inbox, reply>>
linkVars   == <<wire, up>>
histVars   == <<issued, execs, refused>>
vars == <<lock, nodeVars, callerVars, pollVars, linkVars, histVars>>

CallerPC == {"idle", "enter", "send", "wait", "blocked", "leave"}
PollPC   == {"recv", "lock", "poll", "loop", "reply"}

-----------------------------------------------------------------------------
(* rpc_init on every node; connections open.                               *)
Init ==
  /\ lock = [n \in Node |-> Null]
  /\ g_next_seq = [n \in Node |-> 1]
  /\ g_pending = [n \in Node |-> [s \in SeqNo |-> Null]]
  /\ g_methods = [n \in Node |-> {}]
  /\ g_transport_map = [n \in Node |-> [m \in Name |-> Null]]
  /\ cpc = [c \in Caller |-> "idle"]
  /\ call = [c \in Caller |-> NewCall(Null, Null)]
  /\ ret = [i \in CallId |-> Null]
  /\ ppc = [t \in Transport |-> "recv"]
  /\ inbox = [t \in Transport |-> <<>>]
  /\ reply = [t \in Transport |-> Null]
  /\ wire = [t \in Transport |-> <<>>]
  /\ up = [t \in Transport |-> TRUE]
  /\ ncalls = [c \in Caller |-> 0]
  /\ issued = [n \in Node |-> <<>>]
  /\ execs = [i \in CallId |-> 0]
  /\ refused = {}

(* rpc_bind_transport and rpc_register_method: one hashmap_put under the   *)
(* lock.  When heap_malloc fails they return and nothing changes.          *)
rpc_bind_transport(n, m, t) ==
  /\ lock[n] = Null
  /\ g_transport_map' = [g_transport_map EXCEPT ![n][m] = t]
  /\ UNCHANGED <<lock, g_next_seq, g_pending, g_methods, callerVars,
                 pollVars, linkVars, histVars>>

rpc_register_method(n, m) ==
  /\ lock[n] = Null
  /\ g_methods' = [g_methods EXCEPT ![n] = @ \cup {m}]
  /\ UNCHANGED <<lock, g_next_seq, g_pending, g_transport_map, callerVars,
                 pollVars, linkVars, histVars>>

-----------------------------------------------------------------------------
(* rpc_call_with_tlv                                                       *)

(* Variants named X_... change X the way a slip in the code would; none is *)
(* part of the specification.                                              *)
Lock_NoWait(n, th) == lock' = [lock EXCEPT ![n] = th]

Lock(n, th) == lock[n] = Null /\ lock' = [lock EXCEPT ![n] = th]
Unlock(n)   == lock' = [lock EXCEPT ![n] = Null]

(* The call thread c is in, or was in last. *)
Id(c) == <<c, ncalls[c]>>

(* Thread c leaves rpc_call_with_tlv with value r. *)
Return(c, r) ==
  /\ cpc' = [cpc EXCEPT ![c] = "idle"]
  /\ ret' = [ret EXCEPT ![Id(c)] = r]

(* rpc_transport_lookup reads g_transport_map without the lock. *)
Lookup(c, m) ==
  /\ cpc[c] = "idle"
  /\ ncalls[c] < MaxCalls
  /\ g_transport_map[home[c]][m] # Null
  /\ cpc' = [cpc EXCEPT ![c] = "enter"]
  /\ call' = [call EXCEPT ![c] = NewCall(m, g_transport_map[home[c]][m])]
  /\ ncalls' = [ncalls EXCEPT ![c] = @ + 1]
  /\ UNCHANGED <<lock, nodeVars, ret, pollVars, linkVars, histVars>>

LookupFails(c, m) ==
  LET id == <<c, ncalls[c] + 1>> IN
  /\ cpc[c] = "idle"
  /\ ncalls[c] < MaxCalls
  /\ g_transport_map[home[c]][m] = Null
  /\ call' = [call EXCEPT ![c] = NewCall(m, Null)]
  /\ ncalls' = [ncalls EXCEPT ![c] = @ + 1]
  /\ ret' = [ret EXCEPT ![id] = -RPC_STATUS_TRANSPORT_ERROR]
  /\ refused' = refused \cup {id}
  /\ UNCHANGED <<lock, nodeVars, cpc, pollVars, linkVars, issued, execs>>

SeqAfter_Zero(s) == (s + 1) % (SeqMax + 1)
SeqAfter_Stuck(s) == s

(* g_next_seq++, skipping 0 when the 32 bits wrap. *)
SeqAfter(s) == IF s = SeqMax THEN 1 ELSE s + 1

(* How many increments lead from a to b. *)
SeqDistance(a, b) == IF a <= b THEN b - a ELSE b - a + SeqMax

rpc_next_seq_Unchecked(n, s) == s = g_next_seq[n]

(* rpc_next_seq returns the first number from g_next_seq on that is not in *)
(* g_pending; s is that number.                                            *)
rpc_next_seq(n, s) ==
  /\ g_pending[n][s] = Null
  /\ \A r \in SeqNo : g_pending[n][r] = Null =>
       SeqDistance(g_next_seq[n], s) <= SeqDistance(g_next_seq[n], r)

DrawSeq(n, s, id) ==
  /\ rpc_next_seq(n, s)
  /\ g_next_seq' = [g_next_seq EXCEPT ![n] = SeqAfter(s)]
  /\ issued' = [issued EXCEPT ![n] = Append(@, id)]

(* First critical section up to send: the pending call is created and put  *)
(* into g_pending.                                                         *)
Enter(c, s) ==
  LET n == home[c] IN
  /\ cpc[c] = "enter"
  /\ Lock(n, c)
  /\ DrawSeq(n, s, Id(c))
  /\ call' = [call EXCEPT ![c] = [call[c] EXCEPT !.seq = s]]
  /\ g_pending' = [g_pending EXCEPT ![n][s] = c]
  /\ cpc' = [cpc EXCEPT ![c] = "send"]
  /\ UNCHANGED <<g_methods, g_transport_map, ret, ncalls, pollVars, linkVars,
                 execs, refused>>

(* heap_malloc of the pending call, or rpc_waiter_create, fails. *)
EnterNoMem(c, s) ==
  LET n == home[c] IN
  /\ "alloc" \in Faults
  /\ cpc[c] = "enter"
  /\ lock[n] = Null
  /\ DrawSeq(n, s, Id(c))
  /\ Return(c, -RPC_STATUS_INTERNAL_ERROR)
  /\ refused' = refused \cup {Id(c)}
  /\ UNCHANGED <<lock, g_pending, g_methods, g_transport_map, call, ncalls,
                 pollVars, linkVars, execs>>

(* rpc_send_request_tlv; a request's TLV counts as one unit of length.     *)
Request(c) ==
  [status |-> RPC_STATUS_OK, seq |-> call[c].seq,
   mlen |-> NameLen[call[c].name], name |-> call[c].name,
   id |-> Id(c), len |-> NameLen[call[c].name] + 1]

HasRoom(t) == up[t] /\ Len(wire[peer[t]]) < ChanCap
Put(t, msg) == wire' = [wire EXCEPT ![peer[t]] = Append(@, msg)]

(* t->send accepts the message; it blocks, with the lock held, while the   *)
(* connection has no room.                                                 *)
Send(c) ==
  /\ cpc[c] = "send"
  /\ HasRoom(call[c].trans)
  /\ Put(call[c].trans, Request(c))
  /\ Unlock(home[c])
  /\ cpc' = [cpc EXCEPT ![c] = "wait"]
  /\ UNCHANGED <<nodeVars, call, ret, ncalls, pollVars, up, histVars>>

(* heap_malloc of the message fails, or send returns an error. *)
SendFails(c) ==
  /\ cpc[c] = "send"
  /\ "alloc" \in Faults \/ ~up[call[c].trans]
  /\ g_pending' = [g_pending EXCEPT ![home[c]][call[c].seq] = Null]
  /\ Unlock(home[c])
  /\ Return(c, -RPC_STATUS_TRANSPORT_ERROR)
  /\ refused' = refused \cup {Id(c)}
  /\ UNCHANGED <<g_next_seq, g_methods, g_transport_map, call, ncalls,
                 pollVars, linkVars, issued, execs>>

(* rpc_waiter_wait, under the waiter's own mutex: return 0 if signaled ... *)
WaitReturns0(c) ==
  /\ call[c].signaled
  /\ call' = [call EXCEPT ![c] =
       [call[c] EXCEPT !.signaled = FALSE, !.wait_ret = 0]]
  /\ cpc' = [cpc EXCEPT ![c] = "leave"]
  /\ UNCHANGED <<lock, nodeVars, ret, ncalls, pollVars, linkVars, histVars>>

(* ... before the first pthread_cond_timedwait, *)
WaitSignaled(c) == cpc[c] = "wait" /\ WaitReturns0(c)

(* ... else block, *)
WaitBlocks(c) ==
  /\ cpc[c] = "wait"
  /\ ~call[c].signaled
  /\ cpc' = [cpc EXCEPT ![c] = "blocked"]
  /\ UNCHANGED <<lock, nodeVars, call, ret, ncalls, pollVars, linkVars,
                 histVars>>

(* ... until woken, *)
WaitWoken(c) == cpc[c] = "blocked" /\ WaitReturns0(c)

WaitTimesOut_Never(c) == cpc[c] = "blocked" /\ FALSE /\ UNCHANGED vars

(* ... or until the deadline: r # 0 returns -1 without a look at signaled, *)
(* which rpc_waiter_wake may have set before the mutex was reacquired.     *)
WaitTimesOut(c) ==
  /\ cpc[c] = "blocked"
  /\ call' = [call EXCEPT ![c] = [call[c] EXCEPT !.wait_ret = -1]]
  /\ cpc' = [cpc EXCEPT ![c] = "leave"]
  /\ UNCHANGED <<lock, nodeVars, ret, ncalls, pollVars, linkVars, histVars>>

Leave_KeepsPending(c) ==
  /\ cpc[c] = "leave"
  /\ lock[home[c]] = Null
  /\ Return(c, IF call[c].wait_ret = 0 THEN call[c].status
                                       ELSE RPC_STATUS_TIMEOUT)
  /\ UNCHANGED <<lock, nodeVars, call, ncalls, pollVars, linkVars, histVars>>

Leave_IgnoresTimeout(c) ==
  LET n == home[c] IN
  /\ cpc[c] = "leave"
  /\ lock[n] = Null
  /\ g_pending' = [g_pending EXCEPT ![n][call[c].seq] = Null]
  /\ Return(c, call[c].status)
  /\ UNCHANGED <<lock, g_next_seq, g_methods, g_transport_map, call, ncalls,
                 pollVars, linkVars, histVars>>

(* Second critical section: take the call out of g_pending, destroy the    *)
(* waiter, free the pending call and return.                               *)
Leave(c) ==
  LET n == home[c] IN
  /\ cpc[c] = "leave"
  /\ lock[n] = Null
  /\ g_pending' = [g_pending EXCEPT ![n][call[c].seq] = Null]
  /\ Return(c, IF call[c].wait_ret = 0 THEN call[c].status
                                       ELSE RPC_STATUS_TIMEOUT)
  /\ UNCHANGED <<lock, g_next_seq, g_methods, g_transport_map, call, ncalls,
                 pollVars, linkVars, histVars>>

-----------------------------------------------------------------------------
(* The poll thread of t                                                    *)

Take(t, k) ==
  /\ k \in 1 .. Len(wire[t])
  /\ inbox' = [inbox EXCEPT ![t] = SubSeq(wire[t], 1, k)]
  /\ wire' = [wire EXCEPT ![t] = SubSeq(@, k + 1, Len(@))]

(* poll_thread: rpc_tcp_recv without the lock, then rpc_on_data(t, buf, n). *)
Recv(t, k) ==
  /\ ppc[t] = "recv"
  /\ t \notin Polled
  /\ Take(t, k)
  /\ ppc' = [ppc EXCEPT ![t] = "lock"]
  /\ UNCHANGED <<lock, nodeVars, callerVars, reply, up, histVars>>

OnDataLock(t) ==
  /\ ppc[t] = "lock"
  /\ Lock(owner[t], t)
  /\ ppc' = [ppc EXCEPT ![t] = "loop"]
  /\ UNCHANGED <<nodeVars, callerVars, inbox, reply, linkVars, histVars>>

(* rpc_on_data(t, NULL, 0): t->recv is called with the lock held ... *)
PollLock(t) ==
  /\ ppc[t] = "recv"
  /\ t \in Polled
  /\ Lock(owner[t], t)
  /\ ppc' = [ppc EXCEPT ![t] = "poll"]
  /\ UNCHANGED <<nodeVars, callerVars, inbox, reply, linkVars, histVars>>

PollRecv(t, k) ==
  /\ ppc[t] = "poll"
  /\ Take(t, k)
  /\ ppc' = [ppc EXCEPT ![t] = "loop"]
  /\ UNCHANGED <<lock, nodeVars, callerVars, reply, up, histVars>>

(* ... and when it returns no data, rpc_on_data returns and keeps the lock. *)
PollEmpty(t) ==
  /\ ppc[t] = "poll"
  /\ wire[t] = <<>>
  /\ ppc' = [ppc EXCEPT ![t] = "recv"]
  /\ UNCHANGED <<lock, nodeVars, callerVars, inbox, reply, linkVars, histVars>>

Consume_Forgotten(t) == UNCHANGED inbox

(* The dispatch loop looks at the next complete message. *)
AtMessage(t) == ppc[t] = "loop" /\ inbox[t] # <<>>
Consume(t)   == inbox' = [inbox EXCEPT ![t] = Tail(@)]

(* heap_malloc(need) fails: the message is consumed unseen. *)
DropNoMem(t) ==
  /\ "alloc" \in Faults
  /\ AtMessage(t)
  /\ Consume(t)
  /\ UNCHANGED <<lock, nodeVars, callerVars, ppc, reply, linkVars, histVars>>

(* rpc_dispatch_message tells requests from responses by method_len alone. *)
IsResponse(msg) == msg.mlen = 0

Deliver_NoWake(c, msg) ==
  call' = [call EXCEPT ![c] =
    [call[c] EXCEPT !.done = TRUE, !.status = msg.status, !.from = msg.id]]

(* rpc_handle_response, including rpc_waiter_wake. *)
Deliver(c, msg) ==
  call' = [call EXCEPT ![c] =
    [call[c] EXCEPT !.done = TRUE,
                    !.status = msg.status,
                    !.len = IF msg.len > BufSize THEN BufSize ELSE msg.len,
                    !.from = msg.id,
                    !.signaled = TRUE]]

HandleResponse_StaleCall(t) ==
  /\ AtMessage(t)
  /\ LET msg == Head(inbox[t])
     IN  IsResponse(msg) /\ Deliver(msg.id[1], msg)
  /\ Consume(t)
  /\ UNCHANGED <<lock, nodeVars, cpc, ret, ncalls, ppc, reply, linkVars,
                 histVars>>

HandleResponse(t) ==
  /\ AtMessage(t)
  /\ LET msg == Head(inbox[t])
         c   == g_pending[owner[t]][msg.seq]
     IN  /\ IsResponse(msg)
         /\ IF c = Null THEN UNCHANGED call ELSE Deliver(c, msg)
  /\ Consume(t)
  /\ UNCHANGED <<lock, nodeVars, cpc, ret, ncalls, ppc, reply, linkVars,
                 histVars>>

Response_AlwaysOk(msg, st) ==
  [status |-> RPC_STATUS_OK, seq |-> msg.seq, mlen |-> 0, name |-> Null,
   id |-> msg.id, len |-> RespLen[msg.name]]

(* rpc_send_response_tlv; only an OK response carries the result's TLV. *)
Response(msg, st) ==
  [status |-> st, seq |-> msg.seq, mlen |-> 0, name |-> Null, id |-> msg.id,
   len |-> IF st = RPC_STATUS_OK THEN RespLen[msg.name] ELSE 0]

Answer(t, msg, st) ==
  /\ reply' = [reply EXCEPT ![t] = Response(msg, st)]
  /\ ppc' = [ppc EXCEPT ![t] = "reply"]

(* rpc_handle_request: a name that does not fit into method[] is dropped   *)
(* without an answer,                                                      *)
RequestDropped(t) ==
  /\ AtMessage(t)
  /\ Head(inbox[t]).mlen >= METHOD_LEN
  /\ Consume(t)
  /\ refused' = refused \cup {Head(inbox[t]).id}
  /\ UNCHANGED <<lock, nodeVars, callerVars, ppc, reply, linkVars, issued,
                 execs>>

(* an unknown method and parameters that do not parse are refused,         *)
RequestRefused(t) ==
  LET msg == Head(inbox[t]) IN
  /\ AtMessage(t)
  /\ msg.mlen \in 1 .. METHOD_LEN - 1
  /\ Answer(t, msg, IF msg.name \in g_methods[owner[t]]
                    THEN RPC_STATUS_INVALID_PARAMS
                    ELSE RPC_STATUS_METHOD_NOT_FOUND)
  /\ Consume(t)
  /\ refused' = refused \cup {msg.id}
  /\ UNCHANGED <<lock, nodeVars, callerVars, linkVars, issued, execs>>

(* and otherwise the handler runs, with the lock held; its error, or the   *)
(* encoder's, becomes RPC_STATUS_INTERNAL_ERROR.                           *)
RequestExecuted(t) ==
  LET msg == Head(inbox[t]) IN
  /\ AtMessage(t)
  /\ msg.mlen \in 1 .. METHOD_LEN - 1
  /\ msg.name \in g_methods[owner[t]]
  /\ \E st \in {RPC_STATUS_OK, RPC_STATUS_INTERNAL_ERROR} : Answer(t, msg, st)
  /\ Consume(t)
  /\ execs' = [execs EXCEPT ![msg.id] = @ + 1]
  /\ UNCHANGED <<lock, nodeVars, callerVars, linkVars, issued, refused>>

(* The response is sent, again blocking with the lock held ... *)
Reply(t) ==
  /\ ppc[t] = "reply"
  /\ HasRoom(t)
  /\ Put(t, reply[t])
  /\ reply' = [reply EXCEPT ![t] = Null]
  /\ ppc' = [ppc EXCEPT ![t] = "loop"]
  /\ UNCHANGED <<lock, nodeVars, callerVars, inbox, up, histVars>>

(* ... or lost: rpc_handle_request ignores a failed heap_malloc or send. *)
ReplyLost(t) ==
  /\ ppc[t] = "reply"
  /\ "alloc" \in Faults \/ ~up[t]
  /\ reply' = [reply EXCEPT ![t] = Null]
  /\ ppc' = [ppc EXCEPT ![t] = "loop"]
  /\ UNCHANGED <<lock, nodeVars, callerVars, inbox, linkVars, histVars>>

OnDataUnlock(t) ==
  /\ ppc[t] = "loop"
  /\ inbox[t] = <<>>
  /\ Unlock(owner[t])
  /\ ppc' = [ppc EXCEPT ![t] = "recv"]
  /\ UNCHANGED <<nodeVars, callerVars, inbox, reply, linkVars, histVars>>

-----------------------------------------------------------------------------
(* The connection breaks, for good: nothing in the repository reconnects.  *)
LinkDown(t) ==
  /\ "link" \in Faults
  /\ up[t]
  /\ up' = [u \in Transport |-> u \notin {t, peer[t]} /\ up[u]]
  /\ wire' = [u \in Transport |->
                IF u \in {t, peer[t]} THEN <<>> ELSE wire[u]]
  /\ UNCHANGED <<lock, nodeVars, callerVars, pollVars, histVars>>

(* What thread c, and the poll thread of t, do on their own accord once    *)
(* scheduled.  An allocation or a send on an open connection that fails is *)
(* possible but never due.                                                 *)
CallStep(c) ==
  \/ \E s \in SeqNo : Enter(c, s)
  \/ Send(c)
  \/ cpc[c] = "send" /\ ~up[call[c].trans] /\ SendFails(c)
  \/ WaitSignaled(c) \/ WaitBlocks(c) \/ WaitWoken(c) \/ WaitTimesOut(c)
  \/ Leave(c)

PollStep(t) ==
  \/ \E k \in 1 .. ChanCap : Recv(t, k) \/ PollRecv(t, k)
  \/ OnDataLock(t) \/ PollLock(t) \/ PollEmpty(t)
  \/ HandleResponse(t) \/ RequestDropped(t) \/ RequestRefused(t)
  \/ RequestExecuted(t) \/ Reply(t) \/ (~up[t] /\ ReplyLost(t))
  \/ OnDataUnlock(t)

Next ==
  \/ \E x \in Binds : rpc_bind_transport(x[1], x[2], x[3])
  \/ \E x \in Registers : rpc_register_method(x[1], x[2])
  \/ \E c \in Caller, m \in Name : Lookup(c, m) \/ LookupFails(c, m)
  \/ \E c \in Caller, s \in SeqNo : Enter(c, s) \/ EnterNoMem(c, s)
  \/ \E c \in Caller :
       \/ Send(c) \/ SendFails(c)
       \/ WaitSignaled(c) \/ WaitBlocks(c) \/ WaitWoken(c) \/ WaitTimesOut(c)
       \/ Leave(c)
  \/ \E t \in Transport, k \in 1 .. ChanCap : Recv(t, k) \/ PollRecv(t, k)
  \/ \E t \in Transport :
       \/ OnDataLock(t) \/ PollLock(t) \/ PollEmpty(t) \/ DropNoMem(t)
       \/ HandleResponse(t) \/ RequestDropped(t) \/ RequestRefused(t)
       \/ RequestExecuted(t) \/ Reply(t) \/ ReplyLost(t) \/ OnDataUnlock(t)
       \/ LinkDown(t)

Spec == Init /\ [][Next]_vars

(* Every thread keeps running: pthreads are scheduled, and no thread of    *)
(* the repository exits while its process runs.                            *)
Fairness ==
  /\ \A c \in Caller : WF_vars(CallStep(c))
  /\ \A t \in Transport : WF_vars(PollStep(t))

FairSpec == Spec /\ Fairness

-----------------------------------------------------------------------------
NodeTypes ==
  /\ lock \in [Node -> Thread \cup {Null}]
  /\ g_next_seq \in [Node -> SeqNo]
  /\ g_pending \in [Node -> [SeqNo -> Caller \cup {Null}]]
  /\ g_methods \in [Node -> SUBSET Name]
  /\ g_transport_map \in [Node -> [Name -> Transport \cup {Null}]]

CallerTypes ==
  /\ cpc \in [Caller -> CallerPC]
  /\ call \in [Caller -> CallState]
  /\ ncalls \in [Caller -> 0 .. MaxCalls]
  /\ ret \in [CallId -> (-4 .. 5) \cup {Null}]

PollTypes ==
  /\ ppc \in [Transport -> PollPC]
  /\ inbox \in [Transport -> Seq(Message)]
  /\ reply \in [Transport -> Message \cup {Null}]
  /\ wire \in [Transport -> Seq(Message)]
  /\ up \in [Transport -> BOOLEAN]

HistTypes ==
  /\ issued \in [Node -> Seq(CallId)]
  /\ execs \in [CallId -> Nat]
  /\ refused \in SUBSET CallId

(* Every variable has its type: in particular every message in flight is   *)
(* well formed, and sequence numbers are never 0.                          *)
TypeOK == NodeTypes /\ CallerTypes /\ PollTypes /\ HistTypes

InCritical(th) ==
  \/ th \in Caller /\ cpc[th] = "send"
  \/ th \in Transport /\ ppc[th] \in {"poll", "loop", "reply"}

NodeOf(th) == IF th \in Caller THEN home[th] ELSE owner[th]

(* At most one thread of a node is between rpc_port_lock and               *)
(* rpc_port_unlock, sends and receives made with the lock held included.   *)
MutualExclusion ==
  \A x, y \in Thread :
    InCritical(x) /\ InCritical(y) /\ NodeOf(x) = NodeOf(y) => x = y

(* Thread c's struct pending_call is allocated. *)
Pending(c) == cpc[c] \in {"send", "wait", "blocked", "leave"}

(* g_pending holds exactly the pending calls that exist, each under its    *)
(* own sequence number: rpc_handle_response never reaches a freed struct   *)
(* pending_call, and no two waiting calls share a number, even after the   *)
(* 32-bit counter has wrapped.                                             *)
PendingExact ==
  \A n \in Node, s \in SeqNo, c \in Caller :
    g_pending[n][s] = c <=> home[c] = n /\ Pending(c) /\ call[c].seq = s

(* A response is received without its waiter's flag being set, or the      *)
(* flag is set with no response: neither happens, so a thread blocked in   *)
(* rpc_waiter_wait is never left asleep by rpc_handle_response, and        *)
(* rpc_waiter_wait returns 0 only for a response.                          *)
NoLostWakeup ==
  \A c \in Caller :
    /\ cpc[c] \in {"send", "wait", "blocked"} =>
         (call[c].done <=> call[c].signaled)
    /\ cpc[c] = "leave" /\ call[c].wait_ret = 0 => call[c].done

(* rpc_next_seq of node n has not come back to a number it gave out. *)
Unwrapped(n) == Len(issued[n]) <= SeqMax

(* The protocol tells requests and responses apart by method_len, so what  *)
(* follows is about programs whose method names are not empty.             *)
NonEmptyNames == \A m \in Name : NameLen[m] > 0

(* A call is answered by the response to its own request: not by a late    *)
(* one to an earlier call that timed out, nor by another thread's.         *)
AnswerMatches ==
  NonEmptyNames =>
    \A c \in Caller :
      Unwrapped(home[c]) /\ call[c].done => call[c].from = Id(c)

(* A handler runs at most once for a call, and not at all for a call that  *)
(* was given up before, whatever is dropped, late or timed out.            *)
AtMostOnce ==
  \A i \in CallId : execs[i] + (IF i \in refused THEN 1 ELSE 0) <= 1

(* What rpc_call_with_tlv returns is true of the remote side: OK and       *)
(* INTERNAL_ERROR mean the handler ran, the other errors that it did not   *)
(* and will not.  TIMEOUT alone says nothing.                              *)
OutcomeTruthful ==
  NonEmptyNames =>
    \A i \in CallId : Unwrapped(home[i[1]]) =>
      /\ ret[i] \in {RPC_STATUS_OK, RPC_STATUS_INTERNAL_ERROR} =>
           execs[i] = 1
      /\ ret[i] \in {RPC_STATUS_METHOD_NOT_FOUND, RPC_STATUS_INVALID_PARAMS,
                     -RPC_STATUS_INTERNAL_ERROR, -RPC_STATUS_TRANSPORT_ERROR} =>
           i \in refused

(* Once rpc_call_with_tlv has returned, its result and the caller's buffer *)
(* are not written again: a late response finds no pending call.           *)
NoLateWrite ==
  [][/\ \A c \in Caller :
          cpc[c] = "idle" /\ ncalls'[c] = ncalls[c] => call'[c] = call[c]
     /\ \A i \in CallId : ret[i] # Null => ret'[i] = ret[i]]_vars

(* The runtime keeps the promise of CallContract.                          *)
Begun == {i \in CallId : i[2] <= ncalls[i[1]]}

Contract == INSTANCE CallContract WITH
  Call <- CallId, begun <- Begun, runs <- execs, outcome <- ret

(* Every step of rpc.c is a step of the contract, as long as sequence      *)
(* numbers have not wrapped: late, lost and foreign responses, timeouts    *)
(* and failures never make a call's result lie about its execution.        *)
ImplementsContract == Contract!Spec

(* A call returns: with an answer, an error or a timeout. *)
CallReturns == \A c \in Caller : cpc[c] # "idle" ~> cpc[c] = "idle"

-----------------------------------------------------------------------------
(* Statements of the manual that the code does not keep.                   *)

(* "TIMEOUT: no response was received in time": rpc_waiter_wait does not   *)
(* report a timeout for a response that is in the caller's buffer.         *)
TimeoutMeansNoResponse ==
  [][\A c \in Caller :
       cpc[c] = "blocked" /\ call[c].done /\ cpc'[c] = "leave" =>
         call'[c].wait_ret = 0]_vars

(* "Thread-safe runtime": a thread outside rpc_on_data does not own        *)
(* g_rpc_lock, so that other threads can get on.                           *)
LockReleased ==
  \A t \in Transport : ppc[t] = "recv" => lock[owner[t]] # t
=============================================================================
