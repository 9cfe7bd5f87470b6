---------------------------- MODULE CcRpcProofs ----------------------------
(***************************************************************************)
(* Theorems about CcRpc, for any number of nodes, threads, transports and  *)
(* names, any sizes, and any set of failures.                              *)
(***************************************************************************)
EXTENDS CcRpc, TLAPS

(* What the program counters say of the locals: a call that has begun has  *)
(* a name, a transport and an ordinal, a pending one a sequence number,    *)
(* and a response being sent is a message.                                 *)
CallOK(c) ==
  /\ cpc[c] # "idle" => /\ call[c].name \in Name
                        /\ call[c].trans \in Transport
                        /\ ncalls[c] >= 1
  /\ Pending(c) => call[c].seq \in SeqNo

LocalsOK ==
  /\ \A c \in Caller : CallOK(c)
  /\ \A t \in Transport : ppc[t] = "reply" => reply[t] \in Message

TypeInv == TypeOK /\ LocalsOK

LEMMA TypeInit == Init => TypeInv
<1> SUFFICES ASSUME Init PROVE TypeInv
  OBVIOUS
<1>1. NodeTypes
  <2>1. 1 \in SeqNo
    BY SizeAssumption DEF SeqNo
  <2>2. /\ lock \in [Node -> Thread \cup {Null}]
        /\ g_next_seq \in [Node -> SeqNo]
        /\ g_methods \in [Node -> SUBSET Name]
    BY <2>1 DEF Init
  <2>3. g_pending \in [Node -> [SeqNo -> Caller \cup {Null}]]
    BY DEF Init
  <2>4. g_transport_map \in [Node -> [Name -> Transport \cup {Null}]]
    BY DEF Init
  <2> QED BY <2>2, <2>3, <2>4 DEF NodeTypes
<1>0. NewCall(Null, Null) \in CallState
  BY DEF NewCall, CallState, rpc_status_t, RPC_STATUS_OK
<1>2. CallerTypes
  <2>1. 0 \in 0 .. MaxCalls
    BY SizeAssumption
  <2> QED BY <2>1, <1>0 DEF Init, CallerTypes, CallerPC
<1>3. PollTypes
  BY DEF Init, PollTypes, PollPC
<1>4. HistTypes
  BY DEF Init, HistTypes
<1>5. LocalsOK
  BY DEF Init, LocalsOK, CallOK, Pending
<1> QED BY <1>1, <1>2, <1>3, <1>4, <1>5 DEF TypeInv, TypeOK

(* A message received, and a request, is a Message. *)
LEMMA MessageAtHead ==
  ASSUME TypeInv, NEW t \in Transport, AtMessage(t)
  PROVE  Head(inbox[t]) \in Message /\ Tail(inbox[t]) \in Seq(Message)
BY DEF TypeInv, TypeOK, PollTypes, AtMessage

LEMMA IdType ==
  ASSUME TypeInv, NEW c \in Caller, cpc[c] # "idle"
  PROVE  Id(c) \in CallId
BY DEF TypeInv, TypeOK, CallerTypes, LocalsOK, CallOK, Id, CallId

LEMMA RequestType ==
  ASSUME TypeInv, NEW c \in Caller, cpc[c] = "send"
  PROVE  Request(c) \in Message
<1>1. Id(c) \in CallId
  BY IdType
<1>2. call[c].name \in Name /\ call[c].seq \in SeqNo
  BY DEF TypeInv, LocalsOK, CallOK, Pending
<1>3. NameLen[call[c].name] \in Nat
  BY <1>2, SizeAssumption
<1> QED BY <1>1, <1>2, <1>3 DEF Request, Message, RPC_STATUS_OK, rpc_status_t

LEMMA TypeNext == TypeInv /\ [Next]_vars => TypeInv'
<1> SUFFICES ASSUME TypeInv, [Next]_vars PROVE TypeInv'
  OBVIOUS
<1> USE DEF TypeInv, TypeOK
<1>1. ASSUME NEW x \in Binds, rpc_bind_transport(x[1], x[2], x[3])
      PROVE  TypeInv'
  <2>1. x[1] \in Node /\ x[2] \in Name /\ x[3] \in Transport
    BY TopologyAssumption
  <2>2. NodeTypes'
    BY <1>1, <2>1 DEF rpc_bind_transport, NodeTypes
  <2>3. CallerTypes' /\ PollTypes' /\ HistTypes' /\ LocalsOK'
    BY <1>1 DEF rpc_bind_transport, CallerTypes, PollTypes, HistTypes, LocalsOK, CallOK, Pending, callerVars, pollVars, linkVars, histVars
  <2> QED BY <2>2, <2>3
<1>2. ASSUME NEW x \in Registers, rpc_register_method(x[1], x[2])
      PROVE  TypeInv'
  <2>1. x[1] \in Node /\ x[2] \in Name
    BY TopologyAssumption
  <2>2. NodeTypes'
    BY <1>2, <2>1 DEF rpc_register_method, NodeTypes
  <2>3. CallerTypes' /\ PollTypes' /\ HistTypes' /\ LocalsOK'
    BY <1>2 DEF rpc_register_method, CallerTypes, PollTypes, HistTypes, LocalsOK, CallOK, Pending, callerVars, pollVars, linkVars, histVars
  <2> QED BY <2>2, <2>3
<1>3. ASSUME NEW c \in Caller, NEW m \in Name, Lookup(c, m)
      PROVE  TypeInv'
  <2> DEFINE u == g_transport_map[home[c]][m]
             new == NewCall(m, u)
  <2>1. u \in Transport
    BY <1>3, TopologyAssumption DEF Lookup, NodeTypes
  <2>2. new \in CallState /\ new.name = m /\ new.trans = u
    BY <2>1 DEF CallState, NewCall, rpc_status_t, RPC_STATUS_OK
  <2>3. /\ ncalls[c] < MaxCalls
        /\ cpc' = [cpc EXCEPT ![c] = "enter"]
        /\ call' = [call EXCEPT ![c] = new]
        /\ ncalls' = [ncalls EXCEPT ![c] = @ + 1]
        /\ UNCHANGED <<ret, ppc, reply>>
    BY <1>3 DEF Lookup, pollVars
  <2> HIDE DEF new, u
  <2>4. CallerTypes'
    BY <2>2, <2>3, SizeAssumption DEF CallerTypes, CallerPC
  <2>5. LocalsOK'
    BY <2>1, <2>2, <2>3 DEF LocalsOK, CallOK, Pending, CallerTypes
  <2>6. NodeTypes' /\ PollTypes' /\ HistTypes'
    BY <1>3 DEF Lookup, NodeTypes, PollTypes, HistTypes, nodeVars, pollVars, linkVars, histVars
  <2> QED BY <2>4, <2>5, <2>6
<1>4. ASSUME NEW c \in Caller, NEW m \in Name, LookupFails(c, m)
      PROVE  TypeInv'
  <2> DEFINE id == <<c, ncalls[c] + 1>>
             new == NewCall(m, Null)
  <2>1. new \in CallState
    BY DEF CallState, NewCall, rpc_status_t, RPC_STATUS_OK
  <2>2. /\ ncalls[c] < MaxCalls
        /\ cpc[c] = "idle"
        /\ cpc' = cpc
        /\ call' = [call EXCEPT ![c] = new]
        /\ ncalls' = [ncalls EXCEPT ![c] = @ + 1]
        /\ ret' = [ret EXCEPT ![id] = -4]
        /\ refused' = refused \cup {id}
        /\ UNCHANGED <<ppc, reply>>
    BY <1>4 DEF LookupFails, RPC_STATUS_TRANSPORT_ERROR, pollVars
  <2>3. id \in CallId
    BY <2>2, SizeAssumption DEF CallerTypes, CallId
  <2> HIDE DEF new, id
  <2>4. CallerTypes'
    BY <2>1, <2>2, <2>3, SizeAssumption DEF CallerTypes, CallerPC
  <2>5. LocalsOK'
    BY <2>2 DEF LocalsOK, CallOK, Pending, CallerTypes
  <2>6. NodeTypes' /\ PollTypes'
    BY <1>4 DEF LookupFails, NodeTypes, PollTypes, nodeVars, pollVars, linkVars
  <2>7. HistTypes'
    BY <1>4, <2>2, <2>3 DEF LookupFails, HistTypes
  <2> QED BY <2>4, <2>5, <2>6, <2>7
<1>5. ASSUME NEW c \in Caller, NEW s \in SeqNo, Enter(c, s)
      PROVE  TypeInv'
  <2>1. home[c] \in Node /\ cpc[c] = "enter" /\ Id(c) \in CallId
    BY <1>5, TopologyAssumption, IdType DEF Enter
  <2>2. call' = [call EXCEPT ![c] = [call[c] EXCEPT !.seq = s]]
    BY <1>5 DEF Enter
  <2>3. [call[c] EXCEPT !.seq = s] \in CallState
    BY DEF CallerTypes, CallState
  <2>4. CallerTypes'
    BY <1>5, <2>2, <2>3 DEF Enter, CallerTypes, CallerPC
  <2>5. LocalsOK'
    BY <1>5, <2>1, <2>2 DEF Enter, LocalsOK, CallOK, Pending, CallerTypes, CallState, pollVars
  <2>6. NodeTypes'
    BY <1>5, <2>1, SizeAssumption DEF Enter, DrawSeq, Lock, NodeTypes, Thread, SeqNo, SeqAfter
  <2>7. HistTypes' /\ PollTypes'
    BY <1>5, <2>1 DEF Enter, DrawSeq, HistTypes, PollTypes, pollVars, linkVars
  <2> QED BY <2>4, <2>5, <2>6, <2>7
<1>6. ASSUME NEW c \in Caller, NEW s \in SeqNo, EnterNoMem(c, s)
      PROVE  TypeInv'
  <2>1. home[c] \in Node /\ cpc[c] = "enter" /\ Id(c) \in CallId
    BY <1>6, TopologyAssumption, IdType DEF EnterNoMem
  <2>2. CallerTypes'
    BY <1>6, <2>1 DEF EnterNoMem, Return, CallerTypes, CallerPC, RPC_STATUS_INTERNAL_ERROR
  <2>3. LocalsOK'
    BY <1>6 DEF EnterNoMem, Return, LocalsOK, CallOK, Pending, CallerTypes, pollVars
  <2>4. NodeTypes'
    BY <1>6, <2>1, SizeAssumption DEF EnterNoMem, DrawSeq, NodeTypes, SeqNo, SeqAfter
  <2>5. HistTypes' /\ PollTypes'
    BY <1>6, <2>1 DEF EnterNoMem, DrawSeq, HistTypes, PollTypes, pollVars, linkVars
  <2> QED BY <2>2, <2>3, <2>4, <2>5
<1>7. ASSUME NEW c \in Caller, Send(c)
      PROVE  TypeInv'
  <2>1. /\ home[c] \in Node
        /\ cpc[c] = "send"
        /\ call[c].trans \in Transport
        /\ peer[call[c].trans] \in Transport
        /\ Request(c) \in Message
    BY <1>7, TopologyAssumption, RequestType DEF Send, LocalsOK, CallOK
  <2>2. PollTypes'
    BY <1>7, <2>1 DEF Send, Put, PollTypes, pollVars
  <2>3. CallerTypes' /\ LocalsOK'
    BY <1>7, <2>1 DEF Send, CallerTypes, CallerPC, LocalsOK, CallOK, Pending, pollVars
  <2>4. NodeTypes' /\ HistTypes'
    BY <1>7, <2>1 DEF Send, Unlock, NodeTypes, HistTypes, nodeVars, histVars
  <2> QED BY <2>2, <2>3, <2>4
<1>8. ASSUME NEW c \in Caller, SendFails(c)
      PROVE  TypeInv'
  <2>1. /\ home[c] \in Node
        /\ call[c].seq \in SeqNo
        /\ Id(c) \in CallId
    BY <1>8, TopologyAssumption, IdType DEF SendFails, LocalsOK, CallOK, Pending
  <2>2. CallerTypes'
    BY <1>8, <2>1 DEF SendFails, Return, CallerTypes, CallerPC, RPC_STATUS_TRANSPORT_ERROR
  <2>3. LocalsOK'
    BY <1>8 DEF SendFails, Return, LocalsOK, CallOK, Pending, CallerTypes, pollVars
  <2>4. NodeTypes'
    BY <1>8, <2>1 DEF SendFails, Unlock, NodeTypes
  <2>5. HistTypes' /\ PollTypes'
    BY <1>8, <2>1, SMTT(30) DEF SendFails, HistTypes, PollTypes, pollVars, linkVars
  <2> QED BY <2>2, <2>3, <2>4, <2>5
<1>9. ASSUME NEW c \in Caller,
             WaitSignaled(c) \/ WaitWoken(c) \/ WaitBlocks(c) \/ WaitTimesOut(c)
      PROVE  TypeInv'
  <2>1. /\ cpc[c] \in {"wait", "blocked"}
        /\ \E q \in {"blocked", "leave"} : cpc' = [cpc EXCEPT ![c] = q]
        /\ \E sig \in BOOLEAN, r \in {0, -1} :
             call' = [call EXCEPT ![c] = [call[c] EXCEPT !.signaled = sig, !.wait_ret = r]]
        /\ UNCHANGED <<lock, nodeVars, ret, ncalls, pollVars, linkVars, histVars>>
    <3>1. CASE WaitSignaled(c) \/ WaitWoken(c)
      BY <3>1 DEF WaitSignaled, WaitWoken, WaitReturns0
    <3>2. CASE WaitBlocks(c)
      <4>1. call[c] = [call[c] EXCEPT !.signaled = call[c].signaled, !.wait_ret = call[c].wait_ret]
        BY DEF CallerTypes, CallState
      <4>2. call' = [call EXCEPT ![c] = call[c]]
        BY <3>2 DEF WaitBlocks, CallerTypes
      <4>3. call[c].signaled \in BOOLEAN /\ call[c].wait_ret \in {0, -1}
        BY DEF CallerTypes, CallState
      <4> QED BY <3>2, <4>1, <4>2, <4>3 DEF WaitBlocks
    <3>3. CASE WaitTimesOut(c)
      <4>1. call[c].signaled \in BOOLEAN
        BY DEF CallerTypes, CallState
      <4>2. [call[c] EXCEPT !.wait_ret = -1] = [call[c] EXCEPT !.signaled = call[c].signaled, !.wait_ret = -1]
        BY DEF CallerTypes, CallState
      <4> QED BY <3>3, <4>1, <4>2 DEF WaitTimesOut
    <3> QED BY <1>9, <3>1, <3>2, <3>3, ZenonT(40)
  <2>2. PICK sig \in BOOLEAN, r \in {0, -1} :
          call' = [call EXCEPT ![c] = [call[c] EXCEPT !.signaled = sig, !.wait_ret = r]]
    BY <2>1
  <2>3. [call[c] EXCEPT !.signaled = sig, !.wait_ret = r] \in CallState
    BY ZenonT(40) DEF CallerTypes, CallState
  <2>4. CallerTypes'
    BY <2>1, <2>2, <2>3 DEF CallerTypes, CallerPC
  <2>5. LocalsOK'
    BY <2>1, <2>2 DEF LocalsOK, CallOK, Pending, CallerTypes, CallState, pollVars
  <2>6. NodeTypes' /\ PollTypes' /\ HistTypes'
    BY <2>1 DEF NodeTypes, PollTypes, HistTypes, nodeVars, pollVars, linkVars, histVars
  <2> QED BY <2>4, <2>5, <2>6
<1>10. ASSUME NEW c \in Caller, Leave(c)
       PROVE  TypeInv'
  <2>1. /\ home[c] \in Node
        /\ call[c].seq \in SeqNo
        /\ Id(c) \in CallId
    BY <1>10, TopologyAssumption, IdType DEF Leave, LocalsOK, CallOK, Pending
  <2>2. call[c].status \in 0 .. 5
    BY DEF CallerTypes, CallState, rpc_status_t
  <2>3. CallerTypes'
    BY <1>10, <2>1, <2>2 DEF Leave, Return, CallerTypes, CallerPC, RPC_STATUS_TIMEOUT
  <2>4. LocalsOK'
    BY <1>10 DEF Leave, Return, LocalsOK, CallOK, Pending, CallerTypes, pollVars
  <2>5. NodeTypes'
    BY <1>10, <2>1 DEF Leave, NodeTypes
  <2>6. HistTypes' /\ PollTypes'
    BY <1>10 DEF Leave, HistTypes, PollTypes, pollVars, linkVars, histVars
  <2> QED BY <2>3, <2>4, <2>5, <2>6
<1>11. ASSUME NEW t \in Transport, NEW k \in 1 .. ChanCap, Recv(t, k) \/ PollRecv(t, k)
       PROVE  TypeInv'
  <2>1. /\ k \in 1 .. Len(wire[t])
        /\ inbox' = [inbox EXCEPT ![t] = SubSeq(wire[t], 1, k)]
        /\ wire' = [wire EXCEPT ![t] = SubSeq(wire[t], k + 1, Len(wire[t]))]
        /\ \E q \in {"lock", "loop"} : ppc' = [ppc EXCEPT ![t] = q]
        /\ UNCHANGED <<lock, nodeVars, callerVars, reply, up, histVars>>
    BY <1>11 DEF Recv, PollRecv, Take
  <2>2. wire[t] \in Seq(Message)
    BY DEF PollTypes
  <2>3. /\ SubSeq(wire[t], 1, k) \in Seq(Message)
        /\ SubSeq(wire[t], k + 1, Len(wire[t])) \in Seq(Message)
    BY <2>1, <2>2
  <2>4. PollTypes'
    BY <2>1, <2>3 DEF PollTypes, PollPC
  <2>5. NodeTypes' /\ CallerTypes' /\ HistTypes' /\ LocalsOK'
    BY <2>1 DEF NodeTypes, CallerTypes, HistTypes, LocalsOK, CallOK, Pending,
                PollTypes, nodeVars, callerVars, histVars
  <2> QED BY <2>4, <2>5
<1>12. ASSUME NEW t \in Transport,
              OnDataLock(t) \/ PollLock(t) \/ PollEmpty(t) \/ OnDataUnlock(t)
       PROVE  TypeInv'
  <2>1. /\ \E q \in {"loop", "poll", "recv"} : ppc' = [ppc EXCEPT ![t] = q]
        /\ \E h \in {t, Null} : lock' = [lock EXCEPT ![owner[t]] = h] \/ lock' = lock
        /\ UNCHANGED <<nodeVars, callerVars, inbox, reply, linkVars, histVars>>
    BY <1>12 DEF OnDataLock, PollLock, PollEmpty, OnDataUnlock, Lock, Unlock
  <2>2. NodeTypes'
    <3>1. owner[t] \in Node
      BY TopologyAssumption
    <3>2. lock' \in [Node -> Thread \cup {Null}]
      BY <2>1, <3>1, SMTT(30) DEF NodeTypes, Thread
    <3> QED BY <2>1, <3>2 DEF NodeTypes, nodeVars
  <2>3. PollTypes' /\ LocalsOK'
    BY <2>1 DEF PollTypes, PollPC, LocalsOK, CallOK, Pending, callerVars, linkVars
  <2>4. CallerTypes' /\ HistTypes'
    BY <2>1 DEF CallerTypes, HistTypes, callerVars, histVars
  <2> QED BY <2>2, <2>3, <2>4
<1>13. ASSUME NEW t \in Transport, DropNoMem(t) \/ RequestDropped(t)
       PROVE  TypeInv'
  <2>1. /\ AtMessage(t)
        /\ inbox' = [inbox EXCEPT ![t] = Tail(inbox[t])]
        /\ refused' = refused \/ refused' = refused \cup {Head(inbox[t]).id}
        /\ UNCHANGED <<lock, nodeVars, callerVars, ppc, reply, linkVars, issued, execs>>
    BY <1>13 DEF DropNoMem, RequestDropped, Consume, histVars
  <2>2. Tail(inbox[t]) \in Seq(Message) /\ Head(inbox[t]).id \in CallId
    BY <2>1, MessageAtHead DEF Message
  <2>3. PollTypes' /\ HistTypes'
    BY <2>1, <2>2 DEF PollTypes, HistTypes, linkVars
  <2>4. NodeTypes' /\ CallerTypes' /\ LocalsOK'
    BY <2>1 DEF NodeTypes, CallerTypes, LocalsOK, CallOK, Pending, nodeVars, callerVars
  <2> QED BY <2>3, <2>4
<1>14. ASSUME NEW t \in Transport, HandleResponse(t)
       PROVE  TypeInv'
  <2> DEFINE msg == Head(inbox[t])
             c   == g_pending[owner[t]][msg.seq]
  <2>1. /\ AtMessage(t)
        /\ inbox' = [inbox EXCEPT ![t] = Tail(inbox[t])]
        /\ IF c = Null THEN UNCHANGED call ELSE Deliver(c, msg)
        /\ UNCHANGED <<lock, nodeVars, cpc, ret, ncalls, ppc, reply, linkVars, histVars>>
    BY <1>14 DEF HandleResponse, Consume
  <2>2. msg \in Message /\ Tail(inbox[t]) \in Seq(Message)
    BY <2>1, MessageAtHead
  <2>3. c \in Caller \cup {Null}
    BY <2>2, TopologyAssumption DEF NodeTypes, Message
  <2> HIDE DEF msg, c
  <2>4. call' \in [Caller -> CallState] /\
        \A d \in Caller : /\ call'[d].name = call[d].name
                          /\ call'[d].trans = call[d].trans
                          /\ call'[d].seq = call[d].seq
    <3>1. CASE c = Null
      BY <2>1, <3>1 DEF CallerTypes
    <3>2. CASE c # Null
      <4> DEFINE l == IF msg.len > BufSize THEN BufSize ELSE msg.len
                 new == [call[c] EXCEPT !.done = TRUE, !.status = msg.status, !.len = l,
                                        !.from = msg.id, !.signaled = TRUE]
      <4>1. c \in Caller /\ call[c] \in CallState
        BY <2>3, <3>2 DEF CallerTypes
      <4>2. call' = [call EXCEPT ![c] = new]
        BY <2>1, <3>2 DEF Deliver
      <4>3. l \in Nat /\ msg.status \in rpc_status_t /\ msg.id \in CallId
        BY <2>2, SizeAssumption DEF Message
      <4>4. new \in CallState /\ new.name = call[c].name /\ new.trans = call[c].trans /\ new.seq = call[c].seq
        <5> HIDE DEF l
        <5> QED BY <4>1, <4>3 DEF CallState
      <4> HIDE DEF new
      <4> QED BY <4>1, <4>2, <4>4 DEF CallerTypes
    <3> QED BY <3>1, <3>2
  <2>5. CallerTypes'
    BY <2>1, <2>4 DEF CallerTypes
  <2>6. LocalsOK'
    BY <2>1, <2>4 DEF LocalsOK, CallOK, Pending
  <2>7. NodeTypes' /\ PollTypes' /\ HistTypes'
    BY <2>1, <2>2 DEF NodeTypes, PollTypes, HistTypes, nodeVars, linkVars, histVars
  <2> QED BY <2>5, <2>6, <2>7
<1>15. ASSUME NEW t \in Transport, RequestRefused(t) \/ RequestExecuted(t)
       PROVE  TypeInv'
  <2> DEFINE msg == Head(inbox[t])
  <2>1. /\ AtMessage(t)
        /\ inbox' = [inbox EXCEPT ![t] = Tail(inbox[t])]
        /\ \E st \in rpc_status_t :
             /\ st = RPC_STATUS_OK => msg.name \in g_methods[owner[t]]
             /\ Answer(t, msg, st)
        /\ UNCHANGED <<lock, nodeVars, callerVars, linkVars, issued>>
    BY <1>15 DEF RequestRefused, RequestExecuted, Consume, rpc_status_t, RPC_STATUS_OK,
                 RPC_STATUS_METHOD_NOT_FOUND, RPC_STATUS_INVALID_PARAMS, RPC_STATUS_INTERNAL_ERROR
  <2>2. msg \in Message /\ Tail(inbox[t]) \in Seq(Message)
    BY <2>1, MessageAtHead
  <2>3. PICK st \in rpc_status_t :
          /\ st = RPC_STATUS_OK => msg.name \in g_methods[owner[t]]
          /\ Answer(t, msg, st)
    BY <2>1
  <2>4. g_methods[owner[t]] \subseteq Name
    BY TopologyAssumption DEF NodeTypes
  <2>5. Response(msg, st) \in Message
    <3>1. (IF st = RPC_STATUS_OK THEN RespLen[msg.name] ELSE 0) \in Nat
      BY <2>3, <2>4, SizeAssumption
    <3>2. msg.seq \in SeqNo /\ msg.id \in CallId
      BY <2>2 DEF Message
    <3> QED BY <3>1, <3>2 DEF Response, Message
  <2>6. PollTypes' /\ LocalsOK'
    BY <2>1, <2>2, <2>3, <2>5 DEF Answer, PollTypes, PollPC, LocalsOK, CallOK, Pending, callerVars, linkVars
  <2>7. HistTypes'
    <3>1. msg.id \in CallId
      BY <2>2 DEF Message
    <3>2. \/ execs' = execs /\ refused' = refused \cup {msg.id}
          \/ execs' = [execs EXCEPT ![msg.id] = @ + 1] /\ refused' = refused
      BY <1>15 DEF RequestRefused, RequestExecuted
    <3> QED BY <2>1, <3>1, <3>2 DEF HistTypes
  <2>8. NodeTypes' /\ CallerTypes'
    BY <2>1 DEF NodeTypes, CallerTypes, nodeVars, callerVars
  <2> QED BY <2>6, <2>7, <2>8
<1>16. ASSUME NEW t \in Transport, Reply(t) \/ ReplyLost(t)
       PROVE  TypeInv'
  <2>1. /\ ppc[t] = "reply"
        /\ wire' = wire \/ wire' = [wire EXCEPT ![peer[t]] = Append(@, reply[t])]
        /\ reply' = [reply EXCEPT ![t] = Null]
        /\ ppc' = [ppc EXCEPT ![t] = "loop"]
        /\ UNCHANGED <<lock, nodeVars, callerVars, inbox, up, histVars>>
    BY <1>16 DEF Reply, ReplyLost, Put, linkVars
  <2>2. peer[t] \in Transport /\ reply[t] \in Message
    BY <2>1, TopologyAssumption DEF LocalsOK
  <2>5. wire' \in [Transport -> Seq(Message)]
    <3>1. Append(wire[peer[t]], reply[t]) \in Seq(Message)
      BY <2>2 DEF PollTypes
    <3> QED BY <2>1, <3>1 DEF PollTypes
  <2>3. PollTypes' /\ LocalsOK'
    BY <2>1, <2>2, <2>5 DEF PollTypes, PollPC, LocalsOK, CallOK, Pending, callerVars
  <2>4. NodeTypes' /\ CallerTypes' /\ HistTypes'
    BY <2>1 DEF NodeTypes, CallerTypes, HistTypes, nodeVars, callerVars, histVars
  <2> QED BY <2>3, <2>4
<1>17. ASSUME NEW t \in Transport, LinkDown(t)
       PROVE  TypeInv'
  <2>1. peer[t] \in Transport
    BY TopologyAssumption
  <2>4. wire' \in [Transport -> Seq(Message)]
    BY <1>17 DEF LinkDown, PollTypes
  <2>5. up' \in [Transport -> BOOLEAN]
    BY <1>17, Zenon DEF LinkDown
  <2>2. PollTypes' /\ LocalsOK'
    BY <1>17, <2>4, <2>5 DEF LinkDown, PollTypes, LocalsOK, CallOK, Pending, callerVars, pollVars
  <2>3. NodeTypes' /\ CallerTypes' /\ HistTypes'
    BY <1>17 DEF LinkDown, NodeTypes, CallerTypes, HistTypes, nodeVars, callerVars, histVars
  <2> QED BY <2>2, <2>3
<1>18. CASE UNCHANGED vars
  BY <1>18 DEF vars, NodeTypes, CallerTypes, PollTypes, HistTypes, LocalsOK, CallOK, Pending,
               nodeVars, callerVars, pollVars, linkVars, histVars
<1> QED
  BY <1>1, <1>2, <1>3, <1>4, <1>5, <1>6, <1>7, <1>8, <1>9, <1>10, <1>11, <1>12,
     <1>13, <1>14, <1>15, <1>16, <1>17, <1>18 DEF Next

(* Spec keeps every variable in its type: the messages, the call records   *)
(* and the tables of rpc.c are well formed in every reachable state.       *)
THEOREM TypeCorrect == Spec => []TypeOK
<1>1. Spec => []TypeInv
  BY TypeInit, TypeNext, PTL DEF Spec
<1> QED BY <1>1, PTL DEF TypeInv

-----------------------------------------------------------------------------
(* A thread in its critical section owns the lock of its node.  (The       *)
(* converse fails for a polled transport that received no data.)           *)
LockOwned == \A th \in Thread : InCritical(th) => lock[NodeOf(th)] = th

LEMMA LockInit == Init => LockOwned
BY TopologyAssumption DEF Init, LockOwned, InCritical, Thread

LEMMA LockNext == TypeInv /\ LockOwned /\ [Next]_vars => LockOwned'
<1> SUFFICES ASSUME TypeInv, LockOwned, [Next]_vars PROVE LockOwned'
  OBVIOUS
<1> USE DEF TypeInv, TypeOK, NodeTypes, CallerTypes, PollTypes
<1>1. \A th \in Thread : NodeOf(th) \in Node
  BY TopologyAssumption DEF NodeOf, Thread
(* Threads of the node, other than the one that steps, are not affected. *)
<1>2. ASSUME lock' = lock, \A th \in Thread : InCritical(th)' => InCritical(th)
      PROVE  LockOwned'
  BY <1>2 DEF LockOwned, NodeOf
<1>3. ASSUME NEW x \in Thread, lock[NodeOf(x)] = Null,
             lock' = [lock EXCEPT ![NodeOf(x)] = x],
             \A th \in Thread \ {x} : InCritical(th)' => InCritical(th)
      PROVE  LockOwned'
  <2> SUFFICES ASSUME NEW th \in Thread, InCritical(th)' PROVE lock'[NodeOf(th)] = th
    BY DEF LockOwned, NodeOf
  <2>1. CASE th = x
    BY <1>1, <1>3, <2>1
  <2>2. CASE th # x
    <3>1. lock[NodeOf(th)] = th
      BY <1>3, <2>2 DEF LockOwned
    <3>2. NodeOf(th) # NodeOf(x)
      BY <1>3, <3>1, NullAssumption DEF Thread
    <3> QED BY <1>1, <1>3, <3>1, <3>2
  <2> QED BY <2>1, <2>2
<1>4. ASSUME NEW x \in Thread, InCritical(x),
             lock' = [lock EXCEPT ![NodeOf(x)] = Null],
             ~InCritical(x)',
             \A th \in Thread \ {x} : InCritical(th)' => InCritical(th)
      PROVE  LockOwned'
  <2> SUFFICES ASSUME NEW th \in Thread, InCritical(th)' PROVE lock'[NodeOf(th)] = th
    BY DEF LockOwned, NodeOf
  <2>1. th # x
    BY <1>4
  <2>2. lock[NodeOf(th)] = th /\ lock[NodeOf(x)] = x
    BY <1>4, <2>1 DEF LockOwned
  <2> QED BY <1>1, <1>4, <2>1, <2>2
<1>5. \A c \in Caller : c \in Thread /\ NodeOf(c) = home[c] /\ c \notin Transport
  BY TopologyAssumption DEF Thread, NodeOf
<1>6. \A t \in Transport : t \in Thread /\ NodeOf(t) = owner[t] /\ t \notin Caller
  BY TopologyAssumption DEF Thread, NodeOf
<1>7. ASSUME NEW c \in Caller, NEW s \in SeqNo, Enter(c, s) PROVE LockOwned'
  <2>1. lock[home[c]] = Null /\ lock' = [lock EXCEPT ![home[c]] = c]
    BY <1>7 DEF Enter, Lock
  <2>2. \A th \in Thread \ {c} : InCritical(th)' => InCritical(th)
    BY <1>7 DEF Enter, InCritical, pollVars
  <2> QED BY <1>3, <1>5, <2>1, <2>2
<1>8. ASSUME NEW c \in Caller, Send(c) \/ SendFails(c) PROVE LockOwned'
  <2>1. /\ cpc[c] = "send"
        /\ lock' = [lock EXCEPT ![home[c]] = Null]
        /\ \E q \in {"wait", "idle"} : cpc' = [cpc EXCEPT ![c] = q]
        /\ ppc' = ppc
    BY <1>8 DEF Send, SendFails, Unlock, Return, pollVars
  <2>2. InCritical(c) /\ ~InCritical(c)'
    BY <1>5, <2>1 DEF InCritical
  <2>3. \A th \in Thread \ {c} : InCritical(th)' => InCritical(th)
    BY <2>1 DEF InCritical
  <2> QED BY <1>4, <1>5, <2>1, <2>2, <2>3
<1>9. ASSUME NEW t \in Transport, OnDataLock(t) \/ PollLock(t) PROVE LockOwned'
  <2>1. /\ lock[owner[t]] = Null /\ lock' = [lock EXCEPT ![owner[t]] = t]
        /\ \E q \in {"loop", "poll"} : ppc' = [ppc EXCEPT ![t] = q]
        /\ cpc' = cpc
    BY <1>9 DEF OnDataLock, PollLock, Lock, callerVars
  <2>2. \A th \in Thread \ {t} : InCritical(th)' => InCritical(th)
    BY <2>1 DEF InCritical
  <2> QED BY <1>3, <1>6, <2>1, <2>2
<1>10. ASSUME NEW t \in Transport, OnDataUnlock(t) PROVE LockOwned'
  <2>1. /\ ppc[t] = "loop" /\ ppc' = [ppc EXCEPT ![t] = "recv"]
        /\ lock' = [lock EXCEPT ![owner[t]] = Null]
        /\ cpc' = cpc
    BY <1>10 DEF OnDataUnlock, Unlock, callerVars
  <2>2. InCritical(t) /\ ~InCritical(t)'
    BY <1>6, <2>1 DEF InCritical
  <2>3. \A th \in Thread \ {t} : InCritical(th)' => InCritical(th)
    BY <2>1 DEF InCritical
  <2> QED BY <1>4, <1>6, <2>1, <2>2, <2>3
<1>11. ASSUME NEW c \in Caller,
              \/ \E m \in Name : Lookup(c, m) \/ LookupFails(c, m)
              \/ \E s \in SeqNo : EnterNoMem(c, s)
              \/ WaitSignaled(c) \/ WaitBlocks(c) \/ WaitWoken(c) \/ WaitTimesOut(c)
              \/ Leave(c)
       PROVE  LockOwned'
  <2>1. /\ lock' = lock /\ ppc' = ppc
        /\ \E q \in {"idle", "enter", "blocked", "leave"} : cpc' = [cpc EXCEPT ![c] = q] \/ cpc' = cpc
    BY <1>11 DEF Lookup, LookupFails, EnterNoMem, WaitSignaled, WaitBlocks, WaitWoken, WaitReturns0,
                 WaitTimesOut, Leave, Return, pollVars
  <2>2. \A th \in Thread : InCritical(th)' => InCritical(th)
    BY <2>1 DEF InCritical
  <2> QED BY <1>2, <2>1, <2>2
<1>12. ASSUME NEW t \in Transport,
              \/ \E k \in 1 .. ChanCap : Recv(t, k) \/ PollRecv(t, k)
              \/ PollEmpty(t) \/ DropNoMem(t) \/ HandleResponse(t) \/ RequestDropped(t)
              \/ RequestRefused(t) \/ RequestExecuted(t) \/ Reply(t) \/ ReplyLost(t)
              \/ LinkDown(t)
       PROVE  LockOwned'
  <2>1. /\ lock' = lock /\ cpc' = cpc
        /\ \/ ppc' = ppc
           \/ ppc' = [ppc EXCEPT ![t] = "lock"] \/ ppc' = [ppc EXCEPT ![t] = "recv"]
           \/ ppc[t] = "poll" /\ ppc' = [ppc EXCEPT ![t] = "loop"]
           \/ ppc[t] = "loop" /\ ppc' = [ppc EXCEPT ![t] = "reply"]
           \/ ppc[t] = "reply" /\ ppc' = [ppc EXCEPT ![t] = "loop"]
    BY <1>12 DEF Recv, PollRecv, PollEmpty, DropNoMem, HandleResponse, RequestDropped, RequestRefused,
                 RequestExecuted, Reply, ReplyLost, LinkDown, Answer, AtMessage, callerVars, pollVars
  <2>2. \A th \in Thread : InCritical(th)' => InCritical(th)
    BY <2>1 DEF InCritical
  <2> QED BY <1>2, <2>1, <2>2
<1>13. ASSUME UNCHANGED <<lock, cpc, ppc>> PROVE LockOwned'
  BY <1>13 DEF LockOwned, InCritical, NodeOf
<1>14. (\E x \in Binds : rpc_bind_transport(x[1], x[2], x[3]))
       \/ (\E x \in Registers : rpc_register_method(x[1], x[2])) \/ UNCHANGED vars
       => UNCHANGED <<lock, cpc, ppc>>
  BY DEF rpc_bind_transport, rpc_register_method, vars, callerVars, pollVars
<1> QED
  BY <1>7, <1>8, <1>9, <1>10, <1>11, <1>12, <1>13, <1>14 DEF Next

(* No two threads of a node are in a critical section of g_rpc_lock.       *)
THEOREM MutualExclusionHolds == Spec => []MutualExclusion
<1>1. Spec => [](TypeInv /\ LockOwned)
  BY TypeInit, TypeNext, LockInit, LockNext, PTL DEF Spec
<1>2. LockOwned => MutualExclusion
  BY DEF LockOwned, MutualExclusion
<1> QED BY <1>1, <1>2, PTL

-----------------------------------------------------------------------------
(* Most steps leave the set of pending calls and their numbers alone. *)
SamePending ==
  /\ g_pending' = g_pending
  /\ \A c \in Caller : /\ Pending(c)' <=> Pending(c)
                       /\ Pending(c) => call'[c].seq = call[c].seq

LEMMA PendingKept == PendingExact /\ SamePending => PendingExact'
BY DEF PendingExact, SamePending

LEMMA WaitKeepsPending ==
  ASSUME TypeInv, NEW c \in Caller,
         Send(c) \/ WaitSignaled(c) \/ WaitBlocks(c) \/ WaitWoken(c) \/ WaitTimesOut(c)
  PROVE  SamePending
<1> USE DEF TypeInv, TypeOK, CallerTypes, CallState
<1>1. /\ cpc[c] \in {"send", "wait", "blocked"}
      /\ \E q \in {"wait", "blocked", "leave"} : cpc' = [cpc EXCEPT ![c] = q]
      /\ g_pending' = g_pending
      /\ \/ call' = call
         \/ call' = [call EXCEPT ![c] = [call[c] EXCEPT !.signaled = FALSE, !.wait_ret = 0]]
         \/ call' = [call EXCEPT ![c] = [call[c] EXCEPT !.wait_ret = -1]]
  BY DEF Send, WaitSignaled, WaitBlocks, WaitWoken, WaitReturns0, WaitTimesOut, nodeVars
<1>a. /\ [call[c] EXCEPT !.signaled = FALSE, !.wait_ret = 0].seq = call[c].seq
      /\ [call[c] EXCEPT !.wait_ret = -1].seq = call[c].seq
  OBVIOUS
<1>2. \A d \in Caller : call'[d].seq = call[d].seq
  <2> SUFFICES ASSUME NEW d \in Caller PROVE call'[d].seq = call[d].seq
    OBVIOUS
  <2>1. CASE d = c
    BY <1>1, <1>a, <2>1
  <2>2. CASE d # c
    BY <1>1, <2>2
  <2> QED BY <2>1, <2>2
<1>3. \A d \in Caller : Pending(d)' <=> Pending(d)
  BY <1>1 DEF Pending
<1> QED BY <1>1, <1>2, <1>3 DEF SamePending

(* rpc_handle_response touches a pending call's result, not its number. *)
LEMMA ResponseKeepsPending ==
  ASSUME TypeInv, NEW t \in Transport, HandleResponse(t)
  PROVE  SamePending
<1> USE DEF TypeInv, TypeOK, CallerTypes, CallState
<1> DEFINE msg == Head(inbox[t])
           c   == g_pending[owner[t]][msg.seq]
<1>1. c \in Caller \cup {Null}
  BY MessageAtHead, TopologyAssumption DEF HandleResponse, NodeTypes, Message
<1>2. /\ UNCHANGED <<cpc, g_pending>>
      /\ c # Null => Deliver(c, msg)
      /\ c = Null => call' = call
  BY DEF HandleResponse, nodeVars
<1> HIDE DEF msg, c
<1>3. \A d \in Caller : call'[d].seq = call[d].seq
  <2> SUFFICES ASSUME NEW d \in Caller PROVE call'[d].seq = call[d].seq
    OBVIOUS
  <2>1. CASE c = Null
    BY <1>2, <2>1
  <2>2. CASE c # Null /\ d # c
    BY <1>2, <2>2 DEF Deliver
  <2>3. CASE c # Null /\ d = c
    BY <1>2, <2>3 DEF Deliver
  <2> QED BY <2>1, <2>2, <2>3
<1>4. \A d \in Caller : Pending(d)' <=> Pending(d)
  BY <1>2 DEF Pending
<1> QED BY <1>2, <1>3, <1>4 DEF SamePending

LEMMA OthersKeepPending ==
  ASSUME TypeInv,
         \/ \E x \in Binds : rpc_bind_transport(x[1], x[2], x[3])
         \/ \E x \in Registers : rpc_register_method(x[1], x[2])
         \/ \E t \in Transport :
              \/ \E k \in 1 .. ChanCap : Recv(t, k) \/ PollRecv(t, k)
              \/ OnDataLock(t) \/ PollLock(t) \/ PollEmpty(t) \/ DropNoMem(t)
              \/ RequestDropped(t) \/ RequestRefused(t) \/ RequestExecuted(t)
              \/ Reply(t) \/ ReplyLost(t) \/ OnDataUnlock(t) \/ LinkDown(t)
         \/ UNCHANGED vars
  PROVE  SamePending /\ UNCHANGED <<cpc, call, ncalls>>
<1>1. UNCHANGED <<g_pending, cpc, call, ncalls>>
  BY DEF rpc_bind_transport, rpc_register_method, Recv, PollRecv, OnDataLock, PollLock, PollEmpty,
         DropNoMem, RequestDropped, RequestRefused, RequestExecuted, Reply, ReplyLost, OnDataUnlock,
         LinkDown, vars, nodeVars, callerVars
<1> QED BY <1>1 DEF SamePending, Pending

LEMMA CallersKeepPending ==
  ASSUME TypeInv, NEW c \in Caller,
         \/ \E m \in Name : Lookup(c, m) \/ LookupFails(c, m)
         \/ \E s \in SeqNo : EnterNoMem(c, s)
  PROVE  SamePending
<1> USE DEF TypeInv, TypeOK, CallerTypes
<1>1. /\ g_pending' = g_pending
      /\ cpc[c] \in {"idle", "enter"}
      /\ cpc' = cpc \/ \E q \in {"idle", "enter"} : cpc' = [cpc EXCEPT ![c] = q]
      /\ call' = call \/ \E r : call' = [call EXCEPT ![c] = r]
  BY DEF Lookup, LookupFails, EnterNoMem, Return, nodeVars
<1>2. \A d \in Caller : Pending(d)' <=> Pending(d)
  BY <1>1 DEF Pending
<1>3. \A d \in Caller : Pending(d) => call'[d].seq = call[d].seq
  BY <1>1 DEF Pending
<1> QED BY <1>1, <1>2, <1>3 DEF SamePending

LEMMA PendingInit == Init => PendingExact
BY NullAssumption, TopologyAssumption DEF Init, PendingExact, Pending

LEMMA PendingNext == TypeInv /\ PendingExact /\ [Next]_vars => PendingExact'
<1> SUFFICES ASSUME TypeInv, PendingExact, [Next]_vars PROVE PendingExact'
  OBVIOUS
<1> USE DEF TypeInv, TypeOK, NodeTypes, CallerTypes
<1>1. ASSUME NEW c \in Caller, NEW s \in SeqNo, Enter(c, s) PROVE PendingExact'
  <2> DEFINE n == home[c]
  <2>1. /\ n \in Node /\ cpc[c] = "enter" /\ g_pending[n][s] = Null
        /\ call' = [call EXCEPT ![c] = [call[c] EXCEPT !.seq = s]]
        /\ g_pending' = [g_pending EXCEPT ![n][s] = c]
        /\ cpc' = [cpc EXCEPT ![c] = "send"]
    BY <1>1, TopologyAssumption DEF Enter, DrawSeq, rpc_next_seq
  <2> HIDE DEF n
  <2>2. call'[c].seq = s /\ Pending(c)' /\ ~Pending(c)
    BY <2>1 DEF Pending, CallState
  <2>3. \A d \in Caller \ {c} : /\ call'[d] = call[d]
                                /\ Pending(d)' <=> Pending(d)
    BY <2>1 DEF Pending
  <2> SUFFICES ASSUME NEW nn \in Node, NEW ss \in SeqNo, NEW d \in Caller
               PROVE  g_pending'[nn][ss] = d <=> home[d] = nn /\ Pending(d)' /\ call'[d].seq = ss
    BY DEF PendingExact
  <2>4. CASE nn = n /\ ss = s
    <3>1. g_pending'[nn][ss] = c
      BY <2>1, <2>4
    <3>2. CASE d = c
      BY <3>1, <3>2, <2>2, <2>4 DEF n
    <3>3. CASE d # c
      <4>1. ~(home[d] = nn /\ Pending(d) /\ call[d].seq = ss)
        BY <2>1, <2>4, NullAssumption DEF PendingExact
      <4> QED BY <3>1, <3>3, <4>1, <2>3
    <3> QED BY <3>2, <3>3
  <2>5. CASE ~(nn = n /\ ss = s)
    <3>1. g_pending'[nn][ss] = g_pending[nn][ss]
      BY <2>1, <2>5
    <3>2. CASE d = c
      BY <2>2, <2>5, <3>1, <3>2 DEF PendingExact, n
    <3>3. CASE d # c
      BY <2>3, <3>1, <3>3 DEF PendingExact
    <3> QED BY <3>2, <3>3
  <2> QED BY <2>4, <2>5
<1>2. ASSUME NEW c \in Caller, SendFails(c) \/ Leave(c) PROVE PendingExact'
  <2> DEFINE n == home[c]
             s == call[c].seq
  <2>1. /\ n \in Node /\ Pending(c) /\ call' = call
        /\ g_pending' = [g_pending EXCEPT ![n][s] = Null]
        /\ cpc' = [cpc EXCEPT ![c] = "idle"]
    BY <1>2, TopologyAssumption DEF SendFails, Leave, Return, Pending
  <2>2. s \in SeqNo
    BY <2>1 DEF LocalsOK, CallOK
  <2>3. g_pending[n][s] = c
    BY <2>1, <2>2 DEF PendingExact
  <2> HIDE DEF n, s
  <2>4. ~Pending(c)' /\ \A d \in Caller \ {c} : Pending(d)' <=> Pending(d)
    BY <2>1 DEF Pending
  <2> SUFFICES ASSUME NEW nn \in Node, NEW ss \in SeqNo, NEW d \in Caller
               PROVE  g_pending'[nn][ss] = d <=> home[d] = nn /\ Pending(d)' /\ call'[d].seq = ss
    BY DEF PendingExact
  <2>5. CASE nn = n /\ ss = s
    <3>1. g_pending'[nn][ss] = Null
      BY <2>1, <2>2, <2>5
    <3>2. d # Null
      BY NullAssumption
    <3>3. d # c => ~(home[d] = nn /\ Pending(d) /\ call[d].seq = ss)
      BY <2>3, <2>5 DEF PendingExact
    <3> QED BY <2>1, <2>4, <3>1, <3>2, <3>3
  <2>6. CASE ~(nn = n /\ ss = s)
    <3>1. g_pending'[nn][ss] = g_pending[nn][ss]
      BY <2>1, <2>2, <2>6
    <3>2. g_pending[nn][ss] = d <=> home[d] = nn /\ Pending(d) /\ call[d].seq = ss
      BY DEF PendingExact
    <3>3. CASE d = c
      BY <2>4, <2>6, <3>1, <3>2, <3>3 DEF n, s
    <3>4. CASE d # c
      BY <2>1, <2>4, <3>1, <3>2, <3>4
    <3> QED BY <3>3, <3>4
  <2> QED BY <2>5, <2>6
<1>3. ASSUME SamePending PROVE PendingExact'
  BY <1>3, PendingKept
<1> QED
  BY <1>1, <1>2, <1>3, WaitKeepsPending, ResponseKeepsPending, OthersKeepPending, CallersKeepPending DEF Next

(* g_pending is exact in every reachable state: no entry outlives its      *)
(* pending_call, no pending_call is without its entry, and live calls have *)
(* distinct sequence numbers, however often the counter wraps.             *)
THEOREM PendingExactHolds == Spec => []PendingExact
<1>1. Spec => [](TypeInv /\ PendingExact)
  BY TypeInit, TypeNext, PendingInit, PendingNext, PTL DEF Spec
<1> QED BY <1>1, PTL

-----------------------------------------------------------------------------
(* Why a late response cannot answer a later call: before the counter      *)
(* wraps, the s-th number a node draws is s, so a number belongs to one    *)
(* call for good, and every message in flight carries the number of its    *)
(* own call and travels towards the node it is meant for.                  *)
Owns(n, s, i) == s \in 1 .. Len(issued[n]) /\ issued[n][s] = i

HomeOf(i) == home[i[1]]

GoodMsg(t, m) ==
  /\ Unwrapped(HomeOf(m.id)) => Owns(HomeOf(m.id), m.seq, m.id)
  /\ IF IsResponse(m) THEN HomeOf(m.id) = owner[t]
                      ELSE HomeOf(m.id) = owner[peer[t]]

Counters ==
  \A n \in Node : Unwrapped(n) =>
    g_next_seq[n] = IF Len(issued[n]) = SeqMax THEN 1 ELSE Len(issued[n]) + 1

PendingOwns ==
  \A c \in Caller :
    Pending(c) /\ Unwrapped(home[c]) => Owns(home[c], call[c].seq, Id(c))

RoutesOK ==
  /\ \A n \in Node, m \in Name :
       g_transport_map[n][m] # Null => owner[g_transport_map[n][m]] = n
  /\ \A c \in Caller : cpc[c] # "idle" => owner[call[c].trans] = home[c]

WiresOK == \A t \in Transport : \A i \in 1 .. Len(wire[t]) : GoodMsg(t, wire[t][i])
InboxesOK == \A t \in Transport : \A i \in 1 .. Len(inbox[t]) : GoodMsg(t, inbox[t][i])
RepliesOK ==
  \A t \in Transport :
    ppc[t] = "reply" => IsResponse(reply[t]) /\ GoodMsg(peer[t], reply[t])

AnswersOK ==
  \A c \in Caller :
    /\ cpc[c] = "enter" => ~call[c].done
    /\ Unwrapped(home[c]) /\ call[c].done => call[c].from = Id(c)

SeqInv == Counters /\ PendingOwns /\ RoutesOK
MsgInv == WiresOK /\ InboxesOK /\ RepliesOK

(* Drawing a number only adds to what is owned. *)
Grows ==
  \A n \in Node : issued'[n] = issued[n]
                  \/ \E i \in CallId : issued'[n] = Append(issued[n], i)

LEMMA OwnsGrows ==
  ASSUME TypeInv, Grows, NEW n \in Node
  PROVE  /\ Unwrapped(n)' => Unwrapped(n)
         /\ \A s, i : Owns(n, s, i) => Owns(n, s, i)'
<1>1. issued[n] \in Seq(CallId) /\ Len(issued[n]) \in Nat
  BY DEF TypeInv, TypeOK, HistTypes
<1>2. CASE issued'[n] = issued[n]
  BY <1>2 DEF Unwrapped, Owns
<1>3. CASE \E i \in CallId : issued'[n] = Append(issued[n], i)
  <2>1. PICK j \in CallId : issued'[n] = Append(issued[n], j)
    BY <1>3
  <2>2. Len(issued'[n]) = Len(issued[n]) + 1
        /\ \A s \in 1 .. Len(issued[n]) : issued'[n][s] = issued[n][s]
    BY <1>1, <2>1
  <2> QED BY <1>1, <2>2, SizeAssumption DEF Unwrapped, Owns
<1> QED BY <1>2, <1>3 DEF Grows

LEMMA GoodMsgStable ==
  ASSUME TypeInv, Grows, NEW t \in Transport, NEW m \in Message, GoodMsg(t, m)
  PROVE  GoodMsg(t, m)'
<1>1. HomeOf(m.id) \in Node
  BY TopologyAssumption DEF HomeOf, Message, CallId
<1>2. /\ Unwrapped(HomeOf(m.id))' => Unwrapped(HomeOf(m.id))
      /\ Owns(HomeOf(m.id), m.seq, m.id) => Owns(HomeOf(m.id), m.seq, m.id)'
  BY <1>1, OwnsGrows
<1> QED BY <1>2 DEF GoodMsg, HomeOf, IsResponse

(* Messages that stay where they are stay good. *)
LEMMA MsgInvStable ==
  ASSUME TypeInv, Grows, MsgInv, UNCHANGED <<wire, inbox, reply, ppc>>
  PROVE  MsgInv'
<1>1. \A t \in Transport, m \in Message : GoodMsg(t, m) => GoodMsg(t, m)'
  BY GoodMsgStable
<1>2. WiresOK' /\ InboxesOK'
  <2>1. \A t \in Transport : wire[t] \in Seq(Message) /\ inbox[t] \in Seq(Message)
    BY DEF TypeInv, TypeOK, PollTypes
  <2> QED BY <1>1, <2>1 DEF MsgInv, WiresOK, InboxesOK
<1>3. RepliesOK'
  <2>1. \A t \in Transport : peer[t] \in Transport /\ (ppc[t] = "reply" => reply[t] \in Message)
    BY TopologyAssumption DEF TypeInv, LocalsOK
  <2> QED BY <1>1, <2>1 DEF MsgInv, RepliesOK, IsResponse
<1> QED BY <1>2, <1>3 DEF MsgInv

(* The number drawn by an unwrapped counter is its value. *)
LEMMA DrawIsNext ==
  ASSUME TypeInv, PendingExact, SeqInv, NEW n \in Node, NEW s \in SeqNo, NEW id \in CallId,
         DrawSeq(n, s, id), Unwrapped(n)'
  PROVE  /\ s = Len(issued[n]) + 1
         /\ Len(issued'[n]) = Len(issued[n]) + 1
         /\ s \in 1 .. Len(issued'[n]) /\ issued'[n][s] = id
         /\ g_next_seq'[n] = IF Len(issued'[n]) = SeqMax THEN 1 ELSE Len(issued'[n]) + 1
<1>1. /\ issued \in [Node -> Seq(CallId)]
      /\ g_next_seq \in [Node -> SeqNo]
      /\ issued' = [issued EXCEPT ![n] = Append(@, id)]
      /\ g_next_seq' = [g_next_seq EXCEPT ![n] = SeqAfter(s)]
  BY DEF DrawSeq, TypeInv, TypeOK, HistTypes, NodeTypes
<1>2. /\ issued'[n] = Append(issued[n], id)
      /\ issued[n] \in Seq(CallId)
      /\ Len(issued[n]) \in Nat
      /\ Len(issued'[n]) = Len(issued[n]) + 1
      /\ issued'[n][Len(issued[n]) + 1] = id
  BY <1>1
<1>3. Len(issued[n]) < SeqMax /\ Unwrapped(n)
  BY <1>2, SizeAssumption DEF Unwrapped
<1>4. g_next_seq[n] = Len(issued[n]) + 1
  BY <1>3, <1>2, SizeAssumption DEF SeqInv, Counters
<1>5. g_pending[n][g_next_seq[n]] = Null
  <2> SUFFICES ASSUME g_pending[n][g_next_seq[n]] # Null PROVE FALSE
    OBVIOUS
  <2> DEFINE c == g_pending[n][g_next_seq[n]]
  <2>1. c \in Caller
    BY <1>1 DEF TypeInv, TypeOK, NodeTypes
  <2>2. home[c] = n /\ Pending(c) /\ call[c].seq = g_next_seq[n]
    BY <1>1, <2>1 DEF PendingExact
  <2>3. Owns(n, g_next_seq[n], Id(c))
    BY <1>3, <2>1, <2>2 DEF SeqInv, PendingOwns
  <2> QED BY <1>2, <1>4, <2>3 DEF Owns
<1>6. s = g_next_seq[n]
  <2>1. g_next_seq[n] \in SeqNo
    BY <1>1
  <2>2. SeqDistance(g_next_seq[n], s) <= SeqDistance(g_next_seq[n], g_next_seq[n])
    BY <1>5, <2>1 DEF DrawSeq, rpc_next_seq
  <2> QED BY <2>1, <2>2, SizeAssumption DEF SeqDistance, SeqNo
<1>7. g_next_seq'[n] = SeqAfter(s)
  BY <1>1
<1> QED BY <1>2, <1>3, <1>4, <1>6, <1>7, SizeAssumption DEF SeqAfter

(* Steps of the poll threads that touch no call. *)
LEMMA CallSideStable ==
  ASSUME SeqInv, AnswersOK, UNCHANGED <<issued, g_next_seq, g_transport_map, cpc, call, ncalls>>
  PROVE  SeqInv' /\ AnswersOK'
BY DEF SeqInv, Counters, PendingOwns, RoutesOK, AnswersOK, Unwrapped, Owns, Pending, Id

(* Steps of thread c that draw no number and leave its number alone. *)
LEMMA CallerStable ==
  ASSUME TypeInv, SeqInv, AnswersOK, NEW c \in Caller,
         UNCHANGED <<issued, g_next_seq, g_transport_map, ncalls>>,
         \E q \in CallerPC \ {"enter"} : cpc' = [cpc EXCEPT ![c] = q],
         Pending(c)' => Pending(c), cpc[c] # "idle",
         \A d \in Caller : /\ call'[d].seq = call[d].seq /\ call'[d].trans = call[d].trans
                           /\ call'[d].done = call[d].done /\ call'[d].from = call[d].from
  PROVE  SeqInv' /\ AnswersOK'
<1> USE DEF TypeInv, TypeOK, CallerTypes
<1>1. Counters' /\ \A n \in Node : Unwrapped(n)' <=> Unwrapped(n)
  BY DEF SeqInv, Counters, Unwrapped
<1>2. \A d \in Caller \ {c} : cpc'[d] = cpc[d]
  OBVIOUS
<1>3. \A d \in Caller : Pending(d)' => Pending(d)
  BY <1>2 DEF Pending
<1>4. PendingOwns'
  BY <1>3 DEF SeqInv, PendingOwns, Unwrapped, Owns, Id
<1>5. RoutesOK'
  BY <1>2 DEF SeqInv, RoutesOK
<1>6. AnswersOK'
  BY <1>2 DEF AnswersOK, Unwrapped, Id
<1> QED BY <1>1, <1>4, <1>5, <1>6 DEF SeqInv

(* Drawing a number for thread c keeps what other calls and messages own. *)
LEMMA DrawKeeps ==
  ASSUME TypeInv, PendingExact, SeqInv, NEW c \in Caller, NEW s \in SeqNo,
         DrawSeq(home[c], s, Id(c)), Id(c) \in CallId
  PROVE  /\ Grows /\ Counters'
         /\ \A d \in Caller : /\ Unwrapped(home[d])' => Unwrapped(home[d])
                              /\ \A r, i : Owns(home[d], r, i) => Owns(home[d], r, i)'
<1>1. home[c] \in Node /\ \A d \in Caller : home[d] \in Node
  BY TopologyAssumption
<1>2. /\ issued' = [issued EXCEPT ![home[c]] = Append(@, Id(c))]
      /\ g_next_seq' = [g_next_seq EXCEPT ![home[c]] = SeqAfter(s)]
  BY DEF DrawSeq
<1>3. Grows
  BY <1>1, <1>2 DEF Grows, TypeInv, TypeOK, HistTypes
<1>4. Counters'
  <2> SUFFICES ASSUME NEW n \in Node, Unwrapped(n)'
               PROVE  g_next_seq'[n] = IF Len(issued'[n]) = SeqMax THEN 1 ELSE Len(issued'[n]) + 1
    BY DEF Counters
  <2>1. CASE n = home[c]
    BY <2>1, DrawIsNext
  <2>2. CASE n # home[c]
    <3>1. issued'[n] = issued[n] /\ g_next_seq'[n] = g_next_seq[n]
      BY <1>2, <2>2 DEF TypeInv, TypeOK, HistTypes, NodeTypes
    <3> QED BY <3>1 DEF SeqInv, Counters, Unwrapped
  <2> QED BY <2>1, <2>2
<1> QED BY <1>1, <1>3, <1>4, OwnsGrows

LEMMA CallerStepsOK ==
  ASSUME NonEmptyNames, TypeInv, PendingExact, SeqInv, AnswersOK, NEW c \in Caller,
         \/ \E m \in Name : Lookup(c, m) \/ LookupFails(c, m)
         \/ \E s \in SeqNo : Enter(c, s) \/ EnterNoMem(c, s)
         \/ Send(c) \/ SendFails(c) \/ WaitSignaled(c) \/ WaitBlocks(c)
         \/ WaitWoken(c) \/ WaitTimesOut(c) \/ Leave(c)
  PROVE  SeqInv' /\ AnswersOK' /\ Grows
<1> USE DEF TypeInv, TypeOK, CallerTypes
<1>0. home[c] \in Node
  BY TopologyAssumption
<1>1. ASSUME NEW m \in Name, Lookup(c, m) \/ LookupFails(c, m)
      PROVE  SeqInv' /\ AnswersOK' /\ Grows
  <2>1. /\ cpc[c] = "idle"
        /\ \/ cpc' = cpc
           \/ /\ cpc' = [cpc EXCEPT ![c] = "enter"]
              /\ g_transport_map[home[c]][m] # Null
              /\ call'[c].trans = g_transport_map[home[c]][m]
        /\ ~call'[c].done
        /\ \A d \in Caller \ {c} : call'[d] = call[d] /\ ncalls'[d] = ncalls[d]
        /\ UNCHANGED <<issued, g_next_seq, g_transport_map>>
    BY <1>1 DEF Lookup, LookupFails, NewCall, nodeVars, histVars
  <2>2. Counters' /\ Grows
    BY <2>1 DEF SeqInv, Counters, Unwrapped, Grows
  <2>3. PendingOwns'
    BY <2>1 DEF SeqInv, PendingOwns, Pending, Unwrapped, Owns, Id
  <2>4. RoutesOK'
    BY <1>0, <2>1 DEF SeqInv, RoutesOK
  <2>5. AnswersOK'
    BY <2>1 DEF AnswersOK, Unwrapped, Id
  <2> QED BY <2>2, <2>3, <2>4, <2>5 DEF SeqInv
<1>2. ASSUME NEW s \in SeqNo, Enter(c, s) \/ EnterNoMem(c, s)
      PROVE  SeqInv' /\ AnswersOK' /\ Grows
  <2>1. /\ cpc[c] = "enter"
        /\ DrawSeq(home[c], s, Id(c))
        /\ \/ /\ cpc' = [cpc EXCEPT ![c] = "send"]
              /\ call' = [call EXCEPT ![c] = [call[c] EXCEPT !.seq = s]]
           \/ /\ cpc' = [cpc EXCEPT ![c] = "idle"]
              /\ call' = call
        /\ UNCHANGED <<g_transport_map, ncalls>>
    BY <1>2 DEF Enter, EnterNoMem, Return
  <2>2. Id(c) \in CallId
    BY <2>1, IdType
  <2>3. Counters' /\ Grows
    BY <2>1, <2>2, DrawKeeps
  <2>4. \A d \in Caller : /\ Unwrapped(home[d])' => Unwrapped(home[d])
                          /\ \A r, i : Owns(home[d], r, i) => Owns(home[d], r, i)'
    BY <2>1, <2>2, DrawKeeps
  <2>5. \A d \in Caller \ {c} : call'[d] = call[d] /\ cpc'[d] = cpc[d]
    BY <2>1
  <2>6. /\ call'[c].trans = call[c].trans /\ call'[c].done = call[c].done
        /\ call'[c].from = call[c].from
        /\ cpc'[c] = "send" => call'[c].seq = s
    BY <2>1 DEF CallState
  <2>7. PendingOwns'
    <3> SUFFICES ASSUME NEW d \in Caller, Pending(d)', Unwrapped(home[d])'
                 PROVE  Owns(home[d], call[d].seq, Id(d))'
      BY DEF PendingOwns
    <3>1. CASE d = c
      <4>1. call'[c].seq = s /\ Id(c)' = Id(c)
        BY <2>1, <2>6, <3>1 DEF Pending, Id
      <4>2. s \in 1 .. Len(issued'[home[c]]) /\ issued'[home[c]][s] = Id(c)
        BY <1>0, <2>1, <2>2, <3>1, DrawIsNext
      <4> QED BY <3>1, <4>1, <4>2 DEF Owns
    <3>2. CASE d # c
      <4>1. Pending(d) /\ call'[d].seq = call[d].seq /\ Id(d)' = Id(d)
        BY <2>1, <2>5, <3>2 DEF Pending, Id
      <4>2. Owns(home[d], call[d].seq, Id(d))
        BY <2>4, <4>1 DEF SeqInv, PendingOwns
      <4>3. \A r, i : r = call[d].seq /\ i = Id(d) => Owns(home[d], r, i)'
        BY <2>4, <4>2
      <4> QED BY <4>1, <4>3 DEF Owns
    <3> QED BY <3>1, <3>2
  <2>8. RoutesOK'
    BY <2>1, <2>5, <2>6 DEF SeqInv, RoutesOK
  <2>9. AnswersOK'
    BY <2>1, <2>4, <2>5, <2>6 DEF AnswersOK, Id
  <2> QED BY <2>3, <2>7, <2>8, <2>9 DEF SeqInv
<1>3. ASSUME \/ Send(c) \/ SendFails(c) \/ WaitSignaled(c) \/ WaitBlocks(c)
             \/ WaitWoken(c) \/ WaitTimesOut(c) \/ Leave(c)
      PROVE  SeqInv' /\ AnswersOK' /\ Grows
  <2>1. /\ cpc[c] \in {"send", "wait", "blocked", "leave"}
        /\ \E q \in CallerPC \ {"enter"} : cpc' = [cpc EXCEPT ![c] = q]
        /\ UNCHANGED <<issued, g_next_seq, g_transport_map, ncalls>>
        /\ \/ call' = call
           \/ call' = [call EXCEPT ![c] = [call[c] EXCEPT !.signaled = FALSE, !.wait_ret = 0]]
           \/ call' = [call EXCEPT ![c] = [call[c] EXCEPT !.wait_ret = -1]]
    BY <1>3 DEF Send, SendFails, WaitSignaled, WaitBlocks, WaitWoken, WaitReturns0, WaitTimesOut,
                Leave, Return, nodeVars, histVars, CallerPC
  <2>2. \A d \in Caller : /\ call'[d].seq = call[d].seq /\ call'[d].trans = call[d].trans
                          /\ call'[d].done = call[d].done /\ call'[d].from = call[d].from
    <3> SUFFICES ASSUME NEW d \in Caller
                 PROVE  /\ call'[d].seq = call[d].seq /\ call'[d].trans = call[d].trans
                        /\ call'[d].done = call[d].done /\ call'[d].from = call[d].from
      OBVIOUS
    <3>1. CASE d # c
      BY <2>1, <3>1
    <3>2. CASE d = c
      BY <2>1, <3>2, ZenonT(40) DEF CallState
    <3> QED BY <3>1, <3>2
  <2>3. Grows
    BY <2>1 DEF Grows
  <2>4. Pending(c)' => Pending(c)
    BY <2>1 DEF Pending
  <2> QED BY <2>1, <2>2, <2>3, <2>4, CallerStable
<1> QED BY <1>1, <1>2, <1>3

(* A request is good where it is put. *)
LEMMA SendOK ==
  ASSUME NonEmptyNames, TypeInv, SeqInv, MsgInv, NEW c \in Caller, Send(c)
  PROVE  MsgInv'
<1> DEFINE u == peer[call[c].trans]
<1>1. /\ call[c].trans \in Transport /\ u \in Transport /\ peer[u] = call[c].trans
      /\ Request(c) \in Message /\ call[c].name \in Name /\ Pending(c)
  BY TopologyAssumption, RequestType DEF Send, TypeInv, LocalsOK, CallOK, Pending
<1>2. /\ wire' = [wire EXCEPT ![u] = Append(@, Request(c))]
      /\ UNCHANGED <<inbox, reply, ppc, issued>>
  BY DEF Send, Put, pollVars, histVars
<1>3. GoodMsg(u, Request(c))
  <2>1. /\ Request(c).id = Id(c) /\ Request(c).seq = call[c].seq
        /\ Request(c).mlen = NameLen[call[c].name]
    BY DEF Request
  <2>2. HomeOf(Id(c)) = home[c] /\ owner[call[c].trans] = home[c]
    BY DEF HomeOf, Id, SeqInv, RoutesOK, Send
  <2>3. ~IsResponse(Request(c))
    BY <1>1, <2>1, SizeAssumption DEF NonEmptyNames, IsResponse
  <2>4. Unwrapped(home[c]) => Owns(home[c], call[c].seq, Id(c))
    BY <1>1 DEF SeqInv, PendingOwns
  <2> QED BY <1>1, <2>1, <2>2, <2>3, <2>4 DEF GoodMsg
<1> HIDE DEF u
<1>5. \A t \in Transport : wire[t] \in Seq(Message)
  BY DEF TypeInv, TypeOK, PollTypes
<1>6. WiresOK'
  <2> SUFFICES ASSUME NEW t \in Transport, NEW i \in 1 .. Len(wire'[t])
               PROVE  GoodMsg(t, wire'[t][i])
    BY <1>2, ZenonT(40) DEF WiresOK, GoodMsg, Unwrapped, Owns, IsResponse, HomeOf
  <2>1. CASE t # u
    BY <1>2, <1>5, <2>1 DEF MsgInv, WiresOK
  <2>2. CASE t = u
    <3>1. wire'[t] = Append(wire[t], Request(c))
      BY <1>1, <1>2, <2>2 DEF TypeInv, TypeOK, PollTypes
    <3>2. \/ i \in 1 .. Len(wire[t]) /\ wire'[t][i] = wire[t][i]
          \/ wire'[t][i] = Request(c)
      BY <1>1, <1>5, <3>1
    <3> QED BY <1>3, <2>2, <3>2 DEF MsgInv, WiresOK
  <2> QED BY <2>1, <2>2
<1>7. InboxesOK' /\ RepliesOK'
  BY <1>2 DEF MsgInv, InboxesOK, RepliesOK, GoodMsg, Unwrapped, Owns, IsResponse, HomeOf
<1> QED BY <1>6, <1>7 DEF MsgInv

(* Where messages are, as seen by the poll thread of t: taken from the     *)
(* wire, consumed, or sent on.  Nothing is drawn.                          *)
LEMMA RecvOK ==
  ASSUME TypeInv, MsgInv, NEW t \in Transport, NEW k \in 1 .. ChanCap, Recv(t, k) \/ PollRecv(t, k)
  PROVE  MsgInv'
<1>1. /\ k \in 1 .. Len(wire[t])
      /\ inbox' = [inbox EXCEPT ![t] = SubSeq(wire[t], 1, k)]
      /\ wire' = [wire EXCEPT ![t] = SubSeq(wire[t], k + 1, Len(wire[t]))]
      /\ \E q \in {"lock", "loop"} : ppc' = [ppc EXCEPT ![t] = q]
      /\ UNCHANGED <<reply, issued>>
  BY DEF Recv, PollRecv, Take, histVars
<1>2. /\ wire \in [Transport -> Seq(Message)] /\ inbox \in [Transport -> Seq(Message)]
      /\ ppc \in [Transport -> PollPC]
  BY DEF TypeInv, TypeOK, PollTypes
<1>3. WiresOK'
  <2> SUFFICES ASSUME NEW u \in Transport, NEW i \in 1 .. Len(wire'[u])
               PROVE  GoodMsg(u, wire'[u][i])
    BY <1>1, ZenonT(40) DEF WiresOK, GoodMsg, Unwrapped, Owns, IsResponse, HomeOf
  <2>1. CASE u # t
    BY <1>1, <1>2, <2>1 DEF MsgInv, WiresOK
  <2>2. CASE u = t
    <3>1. wire'[u] = SubSeq(wire[t], k + 1, Len(wire[t]))
      BY <1>1, <1>2, <2>2
    <3>2. i + k \in 1 .. Len(wire[t]) /\ wire'[u][i] = wire[t][i + k]
      BY <1>1, <1>2, <3>1
    <3> QED BY <2>2, <3>2 DEF MsgInv, WiresOK
  <2> QED BY <2>1, <2>2, SMTT(30)
<1>4. InboxesOK'
  <2> SUFFICES ASSUME NEW u \in Transport, NEW i \in 1 .. Len(inbox'[u])
               PROVE  GoodMsg(u, inbox'[u][i])
    BY <1>1, ZenonT(40) DEF InboxesOK, GoodMsg, Unwrapped, Owns, IsResponse, HomeOf
  <2>1. CASE u # t
    BY <1>1, <1>2, <2>1 DEF MsgInv, InboxesOK
  <2>2. CASE u = t
    <3>1. inbox'[u] = SubSeq(wire[t], 1, k)
      BY <1>1, <1>2, <2>2
    <3>2. i \in 1 .. Len(wire[t]) /\ inbox'[u][i] = wire[t][i]
      BY <1>1, <1>2, <3>1
    <3> QED BY <2>2, <3>2 DEF MsgInv, WiresOK
  <2> QED BY <2>1, <2>2
<1>5. RepliesOK'
  BY <1>1, <1>2 DEF MsgInv, RepliesOK, GoodMsg, Unwrapped, Owns, IsResponse, HomeOf
<1> QED BY <1>3, <1>4, <1>5 DEF MsgInv

LEMMA ConsumeOK ==
  ASSUME TypeInv, InboxesOK, NEW t \in Transport, AtMessage(t), Consume(t), issued' = issued
  PROVE  InboxesOK' /\ GoodMsg(t, Head(inbox[t]))
<1>1. inbox[t] \in Seq(Message) /\ inbox[t] # <<>> /\ inbox \in [Transport -> Seq(Message)]
  BY DEF TypeInv, TypeOK, PollTypes, AtMessage
<1>2. inbox' = [inbox EXCEPT ![t] = Tail(inbox[t])]
  BY DEF Consume
<1>3. Head(inbox[t]) = inbox[t][1] /\ 1 \in 1 .. Len(inbox[t])
  BY <1>1
<1>4. InboxesOK'
  <2> SUFFICES ASSUME NEW u \in Transport, NEW i \in 1 .. Len(inbox'[u])
               PROVE  GoodMsg(u, inbox'[u][i])
    BY DEF InboxesOK, GoodMsg, Unwrapped, Owns, IsResponse, HomeOf
  <2>1. CASE u # t
    BY <1>1, <1>2, <2>1 DEF InboxesOK
  <2>2. CASE u = t
    <3>1. inbox'[u] = Tail(inbox[t])
      BY <1>1, <1>2, <2>2
    <3>2. i + 1 \in 1 .. Len(inbox[t]) /\ inbox'[u][i] = inbox[t][i + 1]
      BY <1>1, <3>1
    <3> QED BY <2>2, <3>2 DEF InboxesOK
  <2> QED BY <2>1, <2>2
<1> QED BY <1>3, <1>4 DEF InboxesOK

LEMMA AnswerOK ==
  ASSUME TypeInv, MsgInv, NEW t \in Transport, RequestRefused(t) \/ RequestExecuted(t)
  PROVE  MsgInv'
<1> DEFINE msg == Head(inbox[t])
<1>1. /\ AtMessage(t) /\ Consume(t)
      /\ msg.mlen \in 1 .. METHOD_LEN - 1
      /\ \E st : Answer(t, msg, st)
      /\ UNCHANGED <<wire, issued>>
  BY DEF RequestRefused, RequestExecuted, linkVars
<1>2. InboxesOK' /\ GoodMsg(t, msg)
  BY <1>1, ConsumeOK DEF MsgInv
<1>3. PICK st : Answer(t, msg, st)
  BY <1>1
<1>4. peer[t] \in Transport
  BY TopologyAssumption
<1>5. IsResponse(Response(msg, st)) /\ GoodMsg(peer[t], Response(msg, st))
  <2>1. Response(msg, st).mlen = 0 /\ Response(msg, st).id = msg.id /\ Response(msg, st).seq = msg.seq
    BY DEF Response
  <2>2. HomeOf(msg.id) = owner[peer[t]]
    BY <1>1, <1>2, SizeAssumption DEF GoodMsg, IsResponse
  <2> QED BY <1>2, <2>1, <2>2 DEF GoodMsg, IsResponse
<1> HIDE DEF msg
<1>6. RepliesOK'
  <2>1. /\ reply' = [reply EXCEPT ![t] = Response(msg, st)]
        /\ ppc' = [ppc EXCEPT ![t] = "reply"]
    BY <1>3 DEF Answer
  <2> SUFFICES ASSUME NEW u \in Transport, ppc'[u] = "reply"
               PROVE  IsResponse(reply'[u]) /\ GoodMsg(peer[u], reply'[u])
    BY <1>1 DEF RepliesOK, GoodMsg, Unwrapped, Owns, IsResponse, HomeOf
  <2>2. CASE u = t
    BY <1>5, <2>1, <2>2 DEF TypeInv, TypeOK, PollTypes
  <2>3. CASE u # t
    BY <2>1, <2>3 DEF TypeInv, TypeOK, PollTypes, MsgInv, RepliesOK
  <2> QED BY <2>2, <2>3
<1>7. WiresOK'
  BY <1>1, SMTT(30) DEF MsgInv, WiresOK, GoodMsg, Unwrapped, Owns, IsResponse, HomeOf
<1> QED BY <1>2, <1>6, <1>7 DEF MsgInv

LEMMA ReplyOK ==
  ASSUME TypeInv, MsgInv, NEW t \in Transport, Reply(t) \/ ReplyLost(t)
  PROVE  MsgInv'
<1> DEFINE u == peer[t]
<1>1. /\ ppc[t] = "reply"
      /\ wire' = wire \/ wire' = [wire EXCEPT ![u] = Append(@, reply[t])]
      /\ reply' = [reply EXCEPT ![t] = Null]
      /\ ppc' = [ppc EXCEPT ![t] = "loop"]
      /\ UNCHANGED <<inbox, issued>>
  BY DEF Reply, ReplyLost, Put, linkVars, histVars
<1>2. u \in Transport /\ reply[t] \in Message /\ GoodMsg(u, reply[t])
  BY <1>1, TopologyAssumption DEF TypeInv, LocalsOK, MsgInv, RepliesOK
<1> HIDE DEF u
<1>3. wire \in [Transport -> Seq(Message)]
  BY DEF TypeInv, TypeOK, PollTypes
<1>4. WiresOK'
  <2> SUFFICES ASSUME NEW v \in Transport, NEW i \in 1 .. Len(wire'[v])
               PROVE  GoodMsg(v, wire'[v][i])
    BY <1>1 DEF WiresOK, GoodMsg, Unwrapped, Owns, IsResponse, HomeOf
  <2>1. CASE wire'[v] = wire[v]
    BY <2>1 DEF MsgInv, WiresOK
  <2>2. CASE wire'[v] # wire[v]
    <3>1. v = u /\ wire'[v] = Append(wire[v], reply[t])
      BY <1>1, <1>2, <1>3, <2>2
    <3>2. \/ i \in 1 .. Len(wire[v]) /\ wire'[v][i] = wire[v][i]
          \/ wire'[v][i] = reply[t]
      BY <1>2, <1>3, <3>1, SMTT(30)
    <3> QED BY <1>2, <3>1, <3>2 DEF MsgInv, WiresOK
  <2> QED BY <2>1, <2>2
<1>5. InboxesOK' /\ RepliesOK'
  BY <1>1, ZenonT(40) DEF TypeInv, TypeOK, PollTypes, MsgInv, InboxesOK, RepliesOK, GoodMsg, Unwrapped, Owns, IsResponse, HomeOf
<1> QED BY <1>4, <1>5 DEF MsgInv

(* A response is for the call that waits under its number. *)
LEMMA ResponseOK ==
  ASSUME TypeInv, PendingExact, SeqInv, MsgInv, AnswersOK, NEW t \in Transport, HandleResponse(t)
  PROVE  SeqInv' /\ AnswersOK' /\ MsgInv'
<1> USE DEF TypeInv, TypeOK, CallerTypes
<1> DEFINE msg == Head(inbox[t])
           n   == owner[t]
           c   == g_pending[n][msg.seq]
<1>1. /\ AtMessage(t) /\ Consume(t) /\ IsResponse(msg)
      /\ c = Null => call' = call
      /\ c # Null => Deliver(c, msg)
      /\ UNCHANGED <<g_next_seq, g_transport_map, cpc, ncalls, ppc, reply, wire, issued>>
  BY DEF HandleResponse, nodeVars, linkVars, histVars
<1>2. InboxesOK' /\ GoodMsg(t, msg)
  BY <1>1, ConsumeOK DEF MsgInv
<1>3. MsgInv'
  BY <1>1, <1>2, ZenonT(40) DEF MsgInv, WiresOK, RepliesOK, GoodMsg, Unwrapped, Owns, IsResponse, HomeOf
<1>4. CASE c = Null
  BY <1>1, <1>3, <1>4, CallSideStable
<1>5. CASE c # Null
  <2>1. n \in Node /\ msg \in Message /\ msg.seq \in SeqNo
    BY <1>1, MessageAtHead, TopologyAssumption DEF Message
  <2>2. c \in Caller
    BY <1>5, <2>1 DEF NodeTypes
  <2>3. home[c] = n /\ Pending(c) /\ call[c].seq = msg.seq
    BY <2>1, <2>2 DEF PendingExact
  <2>4. Unwrapped(n) => msg.id = Id(c)
    <3>1. Unwrapped(n) => Owns(n, msg.seq, Id(c))
      BY <2>2, <2>3 DEF SeqInv, PendingOwns
    <3>2. HomeOf(msg.id) = n
      BY <1>1, <1>2 DEF GoodMsg
    <3>3. Unwrapped(n) => Owns(n, msg.seq, msg.id)
      BY <1>2, <3>2 DEF GoodMsg
    <3> QED BY <3>1, <3>3 DEF Owns
  <2> HIDE DEF msg, n, c
  <2>5. /\ \A d \in Caller \ {c} : call'[d] = call[d]
        /\ call'[c].seq = call[c].seq /\ call'[c].trans = call[c].trans
        /\ call'[c].from = msg.id
    BY <1>1, <1>5, <2>2, ZenonT(40) DEF Deliver, CallState
  <2>6. Counters'
    BY <1>1 DEF SeqInv, Counters, Unwrapped
  <2>7. PendingOwns'
    BY <1>1, <2>5, ZenonT(40) DEF SeqInv, PendingOwns, Pending, Unwrapped, Owns, Id
  <2>8. RoutesOK'
    BY <1>1, <2>5 DEF SeqInv, RoutesOK
  <2>9. AnswersOK'
    <3> SUFFICES ASSUME NEW d \in Caller
                 PROVE  /\ cpc[d] = "enter" => ~call'[d].done
                        /\ Unwrapped(home[d]) /\ call'[d].done => call'[d].from = Id(d)
      BY <1>1 DEF AnswersOK, Unwrapped, Id
    <3>1. CASE d = c
      BY <2>3, <2>4, <2>5, <3>1 DEF Pending
    <3>2. CASE d # c
      BY <2>5, <3>2 DEF AnswersOK
    <3> QED BY <3>1, <3>2
  <2> QED BY <1>3, <2>6, <2>7, <2>8, <2>9 DEF SeqInv
<1> QED BY <1>4, <1>5

AnswerInv == NonEmptyNames => SeqInv /\ MsgInv /\ AnswersOK

LEMMA AnswerInit == Init => AnswerInv
<1> SUFFICES ASSUME Init PROVE SeqInv /\ MsgInv /\ AnswersOK
  BY DEF AnswerInv
<1>1. Counters
  BY SizeAssumption DEF Init, Counters, Unwrapped
<1>2. PendingOwns
  BY DEF Init, PendingOwns, Pending
<1>3. RoutesOK
  BY DEF Init, RoutesOK
<1>4. MsgInv
  BY DEF Init, MsgInv, WiresOK, InboxesOK, RepliesOK
<1>5. AnswersOK
  BY DEF Init, AnswersOK, NewCall
<1> QED BY <1>1, <1>2, <1>3, <1>4, <1>5 DEF SeqInv

LEMMA AnswerNext == TypeInv /\ PendingExact /\ AnswerInv /\ [Next]_vars => AnswerInv'
<1> SUFFICES ASSUME TypeInv, PendingExact, AnswerInv, [Next]_vars, NonEmptyNames
             PROVE  SeqInv' /\ MsgInv' /\ AnswersOK'
  BY DEF AnswerInv, NonEmptyNames
<1>0. SeqInv /\ MsgInv /\ AnswersOK
  BY DEF AnswerInv
<1>1. ASSUME NEW x \in Binds, rpc_bind_transport(x[1], x[2], x[3])
      PROVE  SeqInv' /\ MsgInv' /\ AnswersOK'
  <2>1. x[1] \in Node /\ x[2] \in Name /\ x[3] \in Transport /\ owner[x[3]] = x[1]
    BY TopologyAssumption
  <2>2. /\ g_transport_map' = [g_transport_map EXCEPT ![x[1]][x[2]] = x[3]]
        /\ UNCHANGED <<issued, g_next_seq, cpc, call, ncalls, wire, inbox, reply, ppc>>
    BY <1>1 DEF rpc_bind_transport, callerVars, pollVars, linkVars, histVars
  <2>3. RoutesOK'
    BY <1>0, <2>1, <2>2 DEF SeqInv, RoutesOK, TypeInv, TypeOK, NodeTypes
  <2>4. Counters' /\ PendingOwns' /\ AnswersOK'
    BY <1>0, <2>2 DEF SeqInv, Counters, PendingOwns, AnswersOK, Unwrapped, Owns, Pending, Id
  <2>5. Grows
    BY <2>2 DEF Grows
  <2> QED BY <1>0, <2>2, <2>3, <2>4, <2>5, MsgInvStable DEF SeqInv
<1>2. ASSUME NEW c \in Caller,
             \/ \E m \in Name : Lookup(c, m) \/ LookupFails(c, m)
             \/ \E s \in SeqNo : Enter(c, s) \/ EnterNoMem(c, s)
             \/ Send(c) \/ SendFails(c) \/ WaitSignaled(c) \/ WaitBlocks(c)
             \/ WaitWoken(c) \/ WaitTimesOut(c) \/ Leave(c)
      PROVE  SeqInv' /\ MsgInv' /\ AnswersOK'
  <2>1. SeqInv' /\ AnswersOK' /\ Grows
    BY <1>0, <1>2, CallerStepsOK
  <2>2. Send(c) \/ UNCHANGED <<wire, inbox, reply, ppc>>
    BY <1>2 DEF Lookup, LookupFails, Enter, EnterNoMem, SendFails, WaitSignaled, WaitBlocks, WaitWoken,
                WaitReturns0, WaitTimesOut, Leave, pollVars, linkVars
  <2>3. MsgInv'
    BY <1>0, <2>1, <2>2, SendOK, MsgInvStable
  <2> QED BY <2>1, <2>3
<1>3. ASSUME NEW t \in Transport, HandleResponse(t)
      PROVE  SeqInv' /\ MsgInv' /\ AnswersOK'
  BY <1>0, <1>3, ResponseOK
<1>4. ASSUME NEW t \in Transport,
             \/ \E k \in 1 .. ChanCap : Recv(t, k) \/ PollRecv(t, k)
             \/ OnDataLock(t) \/ PollLock(t) \/ PollEmpty(t) \/ DropNoMem(t)
             \/ RequestDropped(t) \/ RequestRefused(t) \/ RequestExecuted(t)
             \/ Reply(t) \/ ReplyLost(t) \/ OnDataUnlock(t) \/ LinkDown(t)
      PROVE  SeqInv' /\ MsgInv' /\ AnswersOK'
  <2>1. UNCHANGED <<issued, g_next_seq, g_transport_map, cpc, call, ncalls>>
    BY <1>4 DEF Recv, PollRecv, OnDataLock, PollLock, PollEmpty, DropNoMem, RequestDropped,
                RequestRefused, RequestExecuted, Reply, ReplyLost, OnDataUnlock, LinkDown,
                nodeVars, callerVars, histVars
  <2>2. SeqInv' /\ AnswersOK' /\ Grows
    BY <1>0, <2>1, CallSideStable DEF Grows
  <2>3. CASE OnDataLock(t) \/ PollLock(t) \/ PollEmpty(t) \/ OnDataUnlock(t)
    <3>1. /\ \E q \in {"loop", "poll", "recv"} : ppc' = [ppc EXCEPT ![t] = q]
          /\ UNCHANGED <<wire, inbox, reply>>
      BY <2>3, SMTT(30) DEF OnDataLock, PollLock, PollEmpty, OnDataUnlock, linkVars
    <3>2. WiresOK' /\ InboxesOK'
      BY <1>0, <2>1, <3>1 DEF MsgInv, WiresOK, InboxesOK, GoodMsg, Unwrapped, Owns, IsResponse, HomeOf
    <3>3. \A u \in Transport : ppc'[u] = "reply" => ppc[u] = "reply"
      BY <3>1 DEF TypeInv, TypeOK, PollTypes
    <3>4. RepliesOK'
      BY <1>0, <2>1, <3>1, <3>3 DEF MsgInv, RepliesOK, GoodMsg, Unwrapped, Owns, IsResponse, HomeOf
    <3> QED BY <2>2, <3>2, <3>4 DEF MsgInv
  <2>4. CASE DropNoMem(t) \/ RequestDropped(t)
    <3>1. AtMessage(t) /\ Consume(t) /\ UNCHANGED <<wire, reply, ppc>>
      BY <2>4 DEF DropNoMem, RequestDropped, linkVars
    <3>2. InboxesOK'
      BY <1>0, <2>1, <3>1, ConsumeOK, SMTT(30) DEF MsgInv
    <3>3. WiresOK' /\ RepliesOK'
      BY <1>0, <2>1, <3>1 DEF MsgInv, WiresOK, RepliesOK, GoodMsg, Unwrapped, Owns, IsResponse, HomeOf
    <3> QED BY <2>2, <3>2, <3>3 DEF MsgInv
  <2>5. CASE LinkDown(t)
    <3>1. /\ UNCHANGED <<inbox, reply, ppc>>
          /\ \A u \in Transport : wire'[u] = wire[u] \/ wire'[u] = <<>>
      BY <2>5 DEF LinkDown, pollVars
    <3>2. InboxesOK' /\ RepliesOK'
      BY <1>0, <2>1, <3>1 DEF MsgInv, InboxesOK, RepliesOK, GoodMsg, Unwrapped, Owns, IsResponse, HomeOf
    <3>3. \A u \in Transport : \A i \in 1 .. Len(wire'[u]) : i \in 1 .. Len(wire[u]) /\ wire'[u][i] = wire[u][i]
      BY <3>1
    <3>4. WiresOK'
      BY <1>0, <2>1, <3>3, SMTT(30) DEF MsgInv, WiresOK, GoodMsg, Unwrapped, Owns, IsResponse, HomeOf
    <3> QED BY <2>2, <3>2, <3>4 DEF MsgInv
  <2> QED BY <1>0, <1>4, <2>2, <2>3, <2>4, <2>5, RecvOK, AnswerOK, ReplyOK
<1>5. CASE (\E x \in Registers : rpc_register_method(x[1], x[2])) \/ UNCHANGED vars
  <2>1. UNCHANGED <<issued, g_next_seq, g_transport_map, cpc, call, ncalls, wire, inbox, reply, ppc>>
    BY <1>5 DEF rpc_register_method, vars, nodeVars, callerVars, pollVars, linkVars, histVars
  <2> QED BY <1>0, <2>1, CallSideStable, MsgInvStable DEF Grows
<1> QED
  BY <1>1, <1>2, <1>3, <1>4, <1>5 DEF Next

(* Until its counter wraps, a node never takes a response for the answer   *)
(* to another call: not a late one to a call that timed out, not one to    *)
(* another thread's, whatever is lost and however threads interleave.      *)
THEOREM AnswerMatchesHolds == Spec => []AnswerMatches
<1>1. Spec => [](TypeInv /\ PendingExact /\ AnswerInv)
  BY TypeInit, TypeNext, PendingInit, PendingNext, AnswerInit, AnswerNext, PTL DEF Spec
<1>2. AnswerInv => AnswerMatches
  BY DEF AnswerInv, AnswersOK, AnswerMatches
<1> QED BY <1>1, <1>2, PTL

-----------------------------------------------------------------------------
(* rpc_waiter_wait and rpc_waiter_wake: a call starts unanswered, and what *)
(* the poll thread records it also signals.                                *)
WakeOK(pc, r) ==
  /\ pc = "enter" => ~r.done /\ ~r.signaled
  /\ pc \in {"send", "wait", "blocked"} => (r.done <=> r.signaled)
  /\ pc = "leave" /\ r.wait_ret = 0 => r.done

WakeInv == \A c \in Caller : WakeOK(cpc[c], call[c])

LEMMA WakeInit == Init => WakeInv
BY DEF Init, WakeInv, WakeOK

LEMMA WakeNext == TypeInv /\ PendingExact /\ WakeInv /\ [Next]_vars => WakeInv'
<1> SUFFICES ASSUME TypeInv, PendingExact, WakeInv, [Next]_vars PROVE WakeInv'
  OBVIOUS
<1> USE DEF TypeInv, TypeOK, CallerTypes
<1>1. ASSUME NEW c \in Caller, WakeOK(cpc'[c], call'[c]),
             \A d \in Caller \ {c} : cpc'[d] = cpc[d] /\ call'[d] = call[d]
      PROVE  WakeInv'
  BY <1>1 DEF WakeInv, WakeOK
<1>2. ASSUME NEW c \in Caller,
             \/ \E m \in Name : Lookup(c, m) \/ LookupFails(c, m)
             \/ \E s \in SeqNo : Enter(c, s) \/ EnterNoMem(c, s)
             \/ Send(c) \/ SendFails(c) \/ WaitSignaled(c) \/ WaitBlocks(c)
             \/ WaitWoken(c) \/ WaitTimesOut(c) \/ Leave(c)
      PROVE  WakeInv'
  <2>1. \A d \in Caller \ {c} : cpc'[d] = cpc[d] /\ call'[d] = call[d]
    BY <1>2 DEF Lookup, LookupFails, Enter, EnterNoMem, Send, SendFails, WaitSignaled, WaitBlocks,
                WaitWoken, WaitReturns0, WaitTimesOut, Leave, Return
  <2>2. WakeOK(cpc[c], call[c]) /\ call[c] \in CallState
    BY DEF WakeInv
  <2>3. CASE (\E m \in Name : Lookup(c, m) \/ LookupFails(c, m))
    BY <1>1, <2>1, <2>3 DEF Lookup, LookupFails, NewCall, WakeOK
  <2>4. CASE (\E s \in SeqNo : Enter(c, s))
    <3>1. PICK s \in SeqNo : Enter(c, s)
      BY <2>4
    <3>2. /\ cpc[c] = "enter" /\ cpc'[c] = "send"
          /\ call'[c] = [call[c] EXCEPT !.seq = s]
      BY <3>1 DEF Enter
    <3>3. call'[c].done = call[c].done /\ call'[c].signaled = call[c].signaled
      BY <2>2, <3>2 DEF CallState
    <3> QED BY <1>1, <2>1, <2>2, <3>2, <3>3 DEF WakeOK
  <2>5. CASE Send(c) \/ WaitBlocks(c)
    <3>1. /\ cpc[c] \in {"send", "wait"} /\ cpc'[c] \in {"wait", "blocked"}
          /\ call' = call
      BY <2>5 DEF Send, WaitBlocks
    <3> QED BY <1>1, <2>1, <2>2, <3>1 DEF WakeOK
  <2>6. CASE (\E s \in SeqNo : EnterNoMem(c, s)) \/ SendFails(c) \/ Leave(c)
    <3>1. cpc'[c] = "idle"
      BY <2>6 DEF EnterNoMem, SendFails, Leave, Return
    <3> QED BY <1>1, <2>1, <3>1 DEF WakeOK
  <2>7. CASE WaitSignaled(c) \/ WaitWoken(c)
    <3>1. /\ cpc[c] \in {"wait", "blocked"} /\ call[c].signaled /\ cpc'[c] = "leave"
          /\ call'[c] = [call[c] EXCEPT !.signaled = FALSE, !.wait_ret = 0]
      BY <2>7 DEF WaitSignaled, WaitWoken, WaitReturns0
    <3>2. call'[c].done = call[c].done
      BY <2>2, <3>1 DEF CallState
    <3> QED BY <1>1, <2>1, <2>2, <3>1, <3>2 DEF WakeOK
  <2>8. CASE WaitTimesOut(c)
    <3>1. cpc'[c] = "leave" /\ call'[c] = [call[c] EXCEPT !.wait_ret = -1]
      BY <2>8 DEF WaitTimesOut
    <3>2. call'[c].wait_ret # 0
      BY <2>2, <3>1 DEF CallState
    <3> QED BY <1>1, <2>1, <3>1, <3>2 DEF WakeOK
  <2> QED BY <1>2, <2>3, <2>4, <2>5, <2>6, <2>7, <2>8
<1>3. ASSUME NEW t \in Transport, HandleResponse(t) PROVE WakeInv'
  <2> DEFINE msg == Head(inbox[t])
             n   == owner[t]
             c   == g_pending[n][msg.seq]
  <2>1. /\ cpc' = cpc
        /\ c = Null => call' = call
        /\ c # Null => Deliver(c, msg)
    BY <1>3 DEF HandleResponse
  <2>2. CASE c = Null
    BY <2>1, <2>2 DEF WakeInv, WakeOK
  <2>3. CASE c # Null
    <3>1. n \in Node /\ msg.seq \in SeqNo
      BY <1>3, MessageAtHead, TopologyAssumption DEF HandleResponse, Message
    <3>2. c \in Caller
      BY <2>3, <3>1 DEF NodeTypes
    <3>3. Pending(c)
      BY <3>1, <3>2 DEF PendingExact
    <3> HIDE DEF msg, n, c
    <3>4. /\ \A d \in Caller \ {c} : call'[d] = call[d]
          /\ call'[c].done = TRUE /\ call'[c].signaled = TRUE
      BY <2>1, <2>3, <3>2 DEF Deliver, CallState
    <3> QED BY <1>1, <2>1, <3>2, <3>3, <3>4 DEF WakeOK, Pending
  <2> QED BY <2>2, <2>3
<1>4. ASSUME UNCHANGED <<cpc, call>> PROVE WakeInv'
  BY <1>4 DEF WakeInv, WakeOK
<1> QED
  BY <1>2, <1>3, <1>4, OthersKeepPending DEF Next

(* No wakeup is lost and none is spurious, in every reachable state. *)
THEOREM NoLostWakeupHolds == Spec => []NoLostWakeup
<1>1. Spec => [](TypeInv /\ PendingExact /\ WakeInv)
  BY TypeInit, TypeNext, PendingInit, PendingNext, WakeInit, WakeNext, PTL DEF Spec
<1>2. WakeInv => NoLostWakeup
  BY DEF WakeInv, WakeOK, NoLostWakeup
<1> QED BY <1>1, <1>2, PTL

-----------------------------------------------------------------------------
(* A call that is not over has returned nothing. *)
RetInv ==
  \A i \in CallId :
    ret[i] # Null => /\ i[2] <= ncalls[i[1]]
                     /\ cpc[i[1]] # "idle" => i[2] < ncalls[i[1]]

LEMMA RetInit == Init => RetInv
BY DEF Init, RetInv

(* What one step can do to results, for every step. *)
RetStep ==
  \/ /\ ret' = ret
     /\ \A c \in Caller : /\ ncalls'[c] = ncalls[c]
                          /\ cpc'[c] # "idle" => cpc[c] # "idle"
  \/ \E c \in Caller :
       /\ cpc[c] = "idle" /\ ret' = ret
       /\ ncalls' = [ncalls EXCEPT ![c] = @ + 1]
       /\ \A d \in Caller \ {c} : cpc'[d] = cpc[d]
  \/ \E c \in Caller : \E v :
       /\ cpc[c] # "idle" /\ ncalls' = ncalls
       /\ ret' = [ret EXCEPT ![Id(c)] = v] /\ cpc' = [cpc EXCEPT ![c] = "idle"]
  \/ \E c \in Caller : \E v :
       /\ cpc[c] = "idle" /\ cpc' = cpc
       /\ ncalls' = [ncalls EXCEPT ![c] = @ + 1]
       /\ ret' = [ret EXCEPT ![<<c, ncalls[c] + 1>>] = v]

LEMMA NextRetStep == TypeInv /\ [Next]_vars => RetStep
<1> SUFFICES ASSUME TypeInv, [Next]_vars PROVE RetStep
  OBVIOUS
<1> USE DEF TypeInv, TypeOK, CallerTypes
<1>1. ASSUME NEW c \in Caller, NEW m \in Name, Lookup(c, m) PROVE RetStep
  BY <1>1 DEF Lookup, RetStep
<1>2. ASSUME NEW c \in Caller, NEW m \in Name, LookupFails(c, m) PROVE RetStep
  BY <1>2 DEF LookupFails, RetStep
<1>3. ASSUME NEW c \in Caller,
             (\E s \in SeqNo : EnterNoMem(c, s)) \/ SendFails(c) \/ Leave(c)
      PROVE  RetStep
  BY <1>3 DEF EnterNoMem, SendFails, Leave, Return, RetStep
<1>4. ASSUME NEW c \in Caller,
             \/ \E s \in SeqNo : Enter(c, s)
             \/ Send(c) \/ WaitSignaled(c) \/ WaitBlocks(c) \/ WaitWoken(c) \/ WaitTimesOut(c)
      PROVE  RetStep
  <2>1. /\ ret' = ret /\ ncalls' = ncalls /\ cpc[c] # "idle"
        /\ \E q : cpc' = [cpc EXCEPT ![c] = q]
    BY <1>4 DEF Enter, Send, WaitSignaled, WaitBlocks, WaitWoken, WaitReturns0, WaitTimesOut
  <2> QED BY <2>1 DEF RetStep
<1>5. ASSUME UNCHANGED <<ret, ncalls, cpc>> PROVE RetStep
  BY <1>5 DEF RetStep
<1>6. ASSUME NEW t \in Transport,
             \/ \E k \in 1 .. ChanCap : Recv(t, k) \/ PollRecv(t, k)
             \/ OnDataLock(t) \/ PollLock(t) \/ PollEmpty(t) \/ DropNoMem(t) \/ HandleResponse(t)
             \/ RequestDropped(t) \/ RequestRefused(t) \/ RequestExecuted(t)
             \/ Reply(t) \/ ReplyLost(t) \/ OnDataUnlock(t) \/ LinkDown(t)
      PROVE  UNCHANGED <<ret, ncalls, cpc>>
  BY <1>6 DEF Recv, PollRecv, OnDataLock, PollLock, PollEmpty, DropNoMem, HandleResponse,
              RequestDropped, RequestRefused, RequestExecuted, Reply, ReplyLost, OnDataUnlock,
              LinkDown, callerVars
<1>7. (\E x \in Binds : rpc_bind_transport(x[1], x[2], x[3]))
      \/ (\E x \in Registers : rpc_register_method(x[1], x[2])) \/ UNCHANGED vars
      => UNCHANGED <<ret, ncalls, cpc>>
  BY DEF rpc_bind_transport, rpc_register_method, vars, callerVars
<1> QED BY <1>1, <1>2, <1>3, <1>4, <1>5, <1>6, <1>7 DEF Next

LEMMA RetNext ==
  TypeInv /\ RetInv /\ [Next]_vars =>
    RetInv' /\ \A i \in CallId : ret[i] # Null => ret'[i] = ret[i]
<1> SUFFICES ASSUME TypeInv, RetInv, RetStep, NEW i \in CallId
             PROVE  /\ ret'[i] # Null => /\ i[2] <= ncalls'[i[1]]
                                         /\ cpc'[i[1]] # "idle" => i[2] < ncalls'[i[1]]
                    /\ ret[i] # Null => ret'[i] = ret[i]
  BY NextRetStep DEF RetInv
<1>1. i[1] \in Caller /\ i[2] \in Nat /\ ncalls[i[1]] \in Nat /\ i = <<i[1], i[2]>>
  BY SizeAssumption DEF CallId, TypeInv, TypeOK, CallerTypes
<1> USE DEF TypeInv, TypeOK, CallerTypes
<1>2. CASE /\ ret' = ret
           /\ \A c \in Caller : /\ ncalls'[c] = ncalls[c]
                                /\ cpc'[c] # "idle" => cpc[c] # "idle"
  BY <1>1, <1>2 DEF RetInv
<1>3. ASSUME NEW c \in Caller, cpc[c] = "idle", ret' = ret,
             ncalls' = [ncalls EXCEPT ![c] = @ + 1],
             \A d \in Caller \ {c} : cpc'[d] = cpc[d]
      PROVE  /\ ret'[i] # Null => /\ i[2] <= ncalls'[i[1]]
                                  /\ cpc'[i[1]] # "idle" => i[2] < ncalls'[i[1]]
             /\ ret[i] # Null => ret'[i] = ret[i]
  BY <1>1, <1>3 DEF RetInv
<1>4. ASSUME NEW c \in Caller, NEW v, cpc[c] # "idle", ncalls' = ncalls,
             ret' = [ret EXCEPT ![Id(c)] = v], cpc' = [cpc EXCEPT ![c] = "idle"]
      PROVE  /\ ret'[i] # Null => /\ i[2] <= ncalls'[i[1]]
                                  /\ cpc'[i[1]] # "idle" => i[2] < ncalls'[i[1]]
             /\ ret[i] # Null => ret'[i] = ret[i]
  <2>1. CASE i = Id(c)
    BY <1>1, <1>4, <2>1 DEF RetInv, Id
  <2>2. CASE i # Id(c)
    BY <1>1, <1>4, <2>2 DEF RetInv, Id
  <2> QED BY <2>1, <2>2
<1>5. ASSUME NEW c \in Caller, NEW v, cpc[c] = "idle", cpc' = cpc,
             ncalls' = [ncalls EXCEPT ![c] = @ + 1],
             ret' = [ret EXCEPT ![<<c, ncalls[c] + 1>>] = v]
      PROVE  /\ ret'[i] # Null => /\ i[2] <= ncalls'[i[1]]
                                  /\ cpc'[i[1]] # "idle" => i[2] < ncalls'[i[1]]
             /\ ret[i] # Null => ret'[i] = ret[i]
  <2>1. CASE i = <<c, ncalls[c] + 1>>
    BY <1>1, <1>5, <2>1 DEF RetInv
  <2>2. CASE i # <<c, ncalls[c] + 1>>
    BY <1>1, <1>5, <2>2 DEF RetInv
  <2> QED BY <2>1, <2>2
<1> QED BY <1>2, <1>3, <1>4, <1>5 DEF RetStep

(* A returned call is left alone: its buffer by PendingExact, its result   *)
(* because a call returns once.                                            *)
THEOREM NoLateWriteHolds == Spec => NoLateWrite
<1> DEFINE Quiet == \A c \in Caller :
                      cpc[c] = "idle" /\ ncalls'[c] = ncalls[c] => call'[c] = call[c]
           Once  == \A i \in CallId : ret[i] # Null => ret'[i] = ret[i]
<1>1. Spec => [](TypeInv /\ PendingExact /\ RetInv)
  BY TypeInit, TypeNext, PendingInit, PendingNext, RetInit, RetNext, PTL DEF Spec
<1>2. TypeInv /\ PendingExact /\ RetInv /\ [Next]_vars => [Quiet /\ Once]_vars
  <2> SUFFICES ASSUME TypeInv, PendingExact, RetInv, [Next]_vars PROVE Quiet
    BY RetNext
  <2> SUFFICES ASSUME NEW d \in Caller, cpc[d] = "idle", ncalls'[d] = ncalls[d]
               PROVE  call'[d] = call[d]
    OBVIOUS
  <2> USE DEF TypeInv, TypeOK, CallerTypes
  <2>1. ASSUME NEW c \in Caller,
               \/ \E m \in Name : Lookup(c, m) \/ LookupFails(c, m)
               \/ \E s \in SeqNo : Enter(c, s) \/ EnterNoMem(c, s)
               \/ Send(c) \/ SendFails(c) \/ WaitSignaled(c) \/ WaitBlocks(c)
               \/ WaitWoken(c) \/ WaitTimesOut(c) \/ Leave(c)
        PROVE  call'[d] = call[d]
    <3>1. (cpc[c] = "idle" /\ ncalls' = [ncalls EXCEPT ![c] = @ + 1]) \/ cpc[c] # "idle"
      BY <2>1 DEF Lookup, LookupFails, Enter, EnterNoMem, Send, SendFails, WaitSignaled, WaitBlocks,
                  WaitWoken, WaitReturns0, WaitTimesOut, Leave
    <3>2. d # c
      BY <3>1, SizeAssumption
    <3> QED BY <2>1, <3>2 DEF Lookup, LookupFails, Enter, EnterNoMem, Send, SendFails, WaitSignaled,
                              WaitBlocks, WaitWoken, WaitReturns0, WaitTimesOut, Leave
  <2>2. ASSUME NEW t \in Transport, HandleResponse(t) PROVE call'[d] = call[d]
    <3> DEFINE msg == Head(inbox[t])
               n   == owner[t]
               c   == g_pending[n][msg.seq]
    <3>1. /\ c = Null => call' = call
          /\ c # Null => Deliver(c, msg)
      BY <2>2 DEF HandleResponse
    <3>2. n \in Node /\ msg.seq \in SeqNo
      BY <2>2, MessageAtHead, TopologyAssumption DEF HandleResponse, Message
    <3>3. c # Null => c \in Caller /\ Pending(c)
      BY <3>2 DEF NodeTypes, PendingExact
    <3>4. c # d
      BY <3>3, NullAssumption DEF Pending
    <3> HIDE DEF msg, n, c
    <3> QED BY <3>1, <3>3, <3>4 DEF Deliver
  <2> QED BY <2>1, <2>2, OthersKeepPending DEF Next
<1> HIDE DEF Quiet, Once
<1>3. Spec => [][Quiet /\ Once]_vars
  BY <1>1, <1>2, PTL DEF Spec
<1> QED BY <1>3, PTL DEF NoLateWrite, Quiet, Once

-----------------------------------------------------------------------------
(***************************************************************************)
(* What a call's result says about its execution: handlers run at most     *)
(* once, results are true, and the runtime implements CallContract.        *)
(***************************************************************************)

(* The handler has not run for call i and the call is not given up. *)
Fresh(i) == execs[i] = 0 /\ i \notin refused

(* Call i has not been made, or its request is not on the wire yet. *)
Unsent(i) ==
  \/ i[2] > ncalls[i[1]]
  \/ i[2] = ncalls[i[1]] /\ cpc[i[1]] \in {"enter", "send"}

(* A request that is under way has had no effect so far. *)
LiveRequest(m) == ~IsResponse(m) => Fresh(m.id) /\ ~Unsent(m.id)

SameRequest(m, k) == ~IsResponse(m) /\ ~IsResponse(k) /\ m.id = k.id

UnsentFresh == \A i \in CallId : Unsent(i) => Fresh(i)

WiresLive   == \A u \in Transport : \A i \in 1 .. Len(wire[u]) : LiveRequest(wire[u][i])
InboxesLive == \A u \in Transport : \A i \in 1 .. Len(inbox[u]) : LiveRequest(inbox[u][i])

(* At most one copy of a request is under way, on all wires and in all     *)
(* receive buffers together.                                               *)
OnceOnWires ==
  \A u, v \in Transport : \A i \in 1 .. Len(wire[u]), j \in 1 .. Len(wire[v]) :
    SameRequest(wire[u][i], wire[v][j]) => u = v /\ i = j
OnceInInboxes ==
  \A u, v \in Transport : \A i \in 1 .. Len(inbox[u]), j \in 1 .. Len(inbox[v]) :
    SameRequest(inbox[u][i], inbox[v][j]) => u = v /\ i = j
NotOnBoth ==
  \A u, v \in Transport : \A i \in 1 .. Len(wire[u]), j \in 1 .. Len(inbox[v]) :
    ~SameRequest(wire[u][i], inbox[v][j])

OneCopy == OnceOnWires /\ OnceInInboxes /\ NotOnBoth

SentInv == UnsentFresh /\ WiresLive /\ InboxesLive /\ OneCopy /\ AtMostOnce

LEMMA SentInit == Init => SentInv
BY SizeAssumption DEF Init, SentInv, UnsentFresh, WiresLive, InboxesLive, OneCopy, OnceOnWires, OnceInInboxes,
       NotOnBoth, AtMostOnce, Fresh

-----------------------------------------------------------------------------
(* Steps that neither begin, send, execute nor give up a call. *)
NoEffect ==
  /\ UNCHANGED <<execs, refused>>
  /\ \A i \in CallId : Unsent(i)' <=> Unsent(i)

LEMMA NoEffectFresh ==
  ASSUME NoEffect, UnsentFresh, AtMostOnce
  PROVE  /\ UnsentFresh' /\ AtMostOnce'
         /\ \A m \in Message : LiveRequest(m)' <=> LiveRequest(m)
<1>1. \A i \in CallId : Fresh(i)' <=> Fresh(i)
  BY DEF NoEffect, Fresh
<1>2. UnsentFresh' /\ AtMostOnce'
  BY <1>1 DEF NoEffect, UnsentFresh, AtMostOnce
<1>3. \A m \in Message : LiveRequest(m)' <=> LiveRequest(m)
  <2> TAKE m \in Message
  <2>1. m.id \in CallId
    BY DEF Message
  <2> QED BY <1>1, <2>1 DEF NoEffect, LiveRequest, IsResponse
<1> QED BY <1>2, <1>3

(* What the buffers hold afterwards they held before, and nothing twice:   *)
(* a message is left where it is, moved up, or dropped.                    *)
LEMMA NothingMoves ==
  ASSUME TypeInv, SentInv, NoEffect, UNCHANGED <<wire, inbox>>
  PROVE  SentInv'
<1>1. \A u \in Transport : wire[u] \in Seq(Message) /\ inbox[u] \in Seq(Message)
  BY DEF TypeInv, TypeOK, PollTypes
<1>2. UnsentFresh' /\ AtMostOnce' /\ \A m \in Message : LiveRequest(m)' <=> LiveRequest(m)
  BY NoEffectFresh DEF SentInv
<1>3. WiresLive' /\ InboxesLive'
  BY <1>1, <1>2 DEF SentInv, WiresLive, InboxesLive
<1>4. OneCopy'
  BY DEF SentInv, OneCopy, OnceOnWires, OnceInInboxes, NotOnBoth, SameRequest, IsResponse
<1> QED BY <1>2, <1>3, <1>4 DEF SentInv

LEMMA ReceiveMoves ==
  ASSUME TypeInv, SentInv, NoEffect, NEW t \in Transport, NEW k \in Nat, Take(t, k)
  PROVE  SentInv'
<1>1. /\ wire \in [Transport -> Seq(Message)] /\ inbox \in [Transport -> Seq(Message)]
      /\ k \in 1 .. Len(wire[t])
      /\ inbox' = [inbox EXCEPT ![t] = SubSeq(wire[t], 1, k)]
      /\ wire' = [wire EXCEPT ![t] = SubSeq(wire[t], k + 1, Len(wire[t]))]
  BY DEF TypeInv, TypeOK, PollTypes, Take
<1>2. UnsentFresh' /\ AtMostOnce' /\ \A m \in Message : LiveRequest(m)' <=> LiveRequest(m)
  BY NoEffectFresh DEF SentInv
<1>3. \A u \in Transport : u # t => wire'[u] = wire[u] /\ inbox'[u] = inbox[u]
  BY <1>1
<1>4. wire'[t] = SubSeq(wire[t], k + 1, Len(wire[t])) /\ inbox'[t] = SubSeq(wire[t], 1, k)
  BY <1>1
<1>5. wire[t] \in Seq(Message)
  BY <1>1
<1>6. /\ Len(inbox'[t]) = k
      /\ \A i \in 1 .. k : i \in 1 .. Len(wire[t]) /\ inbox'[t][i] = wire[t][i]
  BY <1>1, <1>4, <1>5
<1>7. \A i \in 1 .. Len(wire'[t]) :
        i + k \in 1 .. Len(wire[t]) /\ wire'[t][i] = wire[t][i + k]
  BY <1>1, <1>4, <1>5
<1>8. \A u \in Transport : \A i \in 1 .. Len(wire[u]) : wire[u][i] \in Message
  BY <1>1
<1>9. \A u \in Transport : \A i \in 1 .. Len(inbox[u]) : inbox[u][i] \in Message
  BY <1>1
<1>10. k \in Nat /\ Len(wire'[t]) \in Nat /\ Len(wire[t]) \in Nat
  BY <1>1, <1>4, <1>5
<1>11. WiresLive'
  <2> SUFFICES ASSUME NEW u \in Transport, NEW i \in 1 .. Len(wire'[u])
               PROVE  \E m \in Message : m = wire'[u][i] /\ LiveRequest(m)'
    BY DEF WiresLive, LiveRequest, Fresh, Unsent, IsResponse
  <2>1. CASE u = t
    BY <1>2, <1>7, <1>8, <2>1 DEF SentInv, WiresLive
  <2>2. CASE u # t
    BY <1>2, <1>3, <1>8, <2>2 DEF SentInv, WiresLive
  <2> QED BY <2>1, <2>2
<1>12. InboxesLive'
  <2> SUFFICES ASSUME NEW u \in Transport, NEW i \in 1 .. Len(inbox'[u])
               PROVE  \E m \in Message : m = inbox'[u][i] /\ LiveRequest(m)'
    BY DEF InboxesLive, LiveRequest, Fresh, Unsent, IsResponse
  <2>1. CASE u = t
    BY <1>2, <1>6, <1>8, <2>1 DEF SentInv, WiresLive
  <2>2. CASE u # t
    BY <1>2, <1>3, <1>9, <2>2 DEF SentInv, InboxesLive
  <2> QED BY <2>1, <2>2
<1>13. OneCopy'
  <2> USE DEF SentInv, OneCopy
  <2>1. OnceOnWires'
    <3> SUFFICES ASSUME NEW u \in Transport, NEW v \in Transport,
                        NEW i \in 1 .. Len(wire'[u]), NEW j \in 1 .. Len(wire'[v]),
                        SameRequest(wire'[u][i], wire'[v][j])
                 PROVE  u = v /\ i = j
      BY DEF OnceOnWires, SameRequest, IsResponse
    <3> DEFINE x == IF u = t THEN i + k ELSE i
               y == IF v = t THEN j + k ELSE j
    <3>1. x \in 1 .. Len(wire[u]) /\ wire'[u][i] = wire[u][x]
      BY <1>3, <1>7
    <3>2. y \in 1 .. Len(wire[v]) /\ wire'[v][j] = wire[v][y]
      BY <1>3, <1>7
    <3>3. u = v /\ x = y
      BY <3>1, <3>2 DEF OnceOnWires
    <3> QED BY <3>3, <1>10
  <2>2. OnceInInboxes'
    <3> SUFFICES ASSUME NEW u \in Transport, NEW v \in Transport,
                        NEW i \in 1 .. Len(inbox'[u]), NEW j \in 1 .. Len(inbox'[v]),
                        SameRequest(inbox'[u][i], inbox'[v][j])
                 PROVE  u = v /\ i = j
      BY DEF OnceInInboxes, SameRequest, IsResponse
    <3>1. CASE u = t /\ v = t
      BY <1>6, <3>1 DEF OnceOnWires
    <3>2. CASE u = t /\ v # t
      BY <1>3, <1>6, <3>2 DEF NotOnBoth
    <3>3. CASE u # t /\ v = t
      <4>1. SameRequest(inbox'[v][j], inbox'[u][i])
        BY DEF SameRequest
      <4> QED BY <1>3, <1>6, <3>3, <4>1 DEF NotOnBoth
    <3>4. CASE u # t /\ v # t
      BY <1>3, <3>4 DEF OnceInInboxes
    <3> QED BY <3>1, <3>2, <3>3, <3>4
  <2>3. NotOnBoth'
    <3> SUFFICES ASSUME NEW u \in Transport, NEW v \in Transport,
                        NEW i \in 1 .. Len(wire'[u]), NEW j \in 1 .. Len(inbox'[v]),
                        SameRequest(wire'[u][i], inbox'[v][j])
                 PROVE  FALSE
      BY DEF NotOnBoth, SameRequest, IsResponse
    <3> DEFINE x == IF u = t THEN i + k ELSE i
    <3>1. x \in 1 .. Len(wire[u]) /\ wire'[u][i] = wire[u][x]
      BY <1>3, <1>7
    <3>2. CASE v # t
      BY <1>3, <3>1, <3>2 DEF NotOnBoth
    <3>3. CASE v = t
      <4>1. j \in 1 .. k /\ j \in 1 .. Len(wire[t]) /\ inbox'[v][j] = wire[t][j]
        BY <1>6, <3>3
      <4>2. u = t /\ x = j
        BY <3>1, <4>1 DEF OnceOnWires
      <4> QED BY <1>10, <4>1, <4>2
    <3> QED BY <3>2, <3>3
  <2> QED BY <2>1, <2>2, <2>3
<1> QED BY <1>2, <1>11, <1>12, <1>13 DEF SentInv

(* The connection breaks: what was on its wires is gone. *)
LEMMA BreakMoves ==
  ASSUME TypeInv, SentInv, NoEffect, inbox' = inbox,
         \A u \in Transport : wire'[u] = wire[u] \/ wire'[u] = <<>>
  PROVE  SentInv'
<1>1. \A u \in Transport : wire[u] \in Seq(Message) /\ inbox[u] \in Seq(Message)
  BY DEF TypeInv, TypeOK, PollTypes
<1>2. UnsentFresh' /\ AtMostOnce' /\ \A m \in Message : LiveRequest(m)' <=> LiveRequest(m)
  BY NoEffectFresh DEF SentInv
<1>3. \A u \in Transport : \A i \in 1 .. Len(wire'[u]) :
        i \in 1 .. Len(wire[u]) /\ wire'[u][i] = wire[u][i]
  OBVIOUS
<1>4. WiresLive'
  <2> SUFFICES ASSUME NEW u \in Transport, NEW i \in 1 .. Len(wire'[u])
               PROVE  \E m \in Message : m = wire'[u][i] /\ LiveRequest(m)'
    BY DEF WiresLive, LiveRequest, Fresh, Unsent, IsResponse
  <2> QED BY <1>1, <1>2, <1>3 DEF SentInv, WiresLive
<1>5. InboxesLive'
  BY <1>1, <1>2 DEF SentInv, InboxesLive
<1>6. OneCopy'
  <2>1. OnceOnWires'
    BY <1>3 DEF SentInv, OneCopy, OnceOnWires, SameRequest, IsResponse
  <2>2. OnceInInboxes'
    BY DEF SentInv, OneCopy, OnceInInboxes, SameRequest, IsResponse
  <2>3. NotOnBoth'
    BY <1>3 DEF SentInv, OneCopy, NotOnBoth, SameRequest, IsResponse
  <2> QED BY <2>1, <2>2, <2>3 DEF OneCopy
<1> QED BY <1>2, <1>4, <1>5, <1>6 DEF SentInv

(* A message is put on a wire: a response, or the only copy of a request. *)
LEMMA PutMoves ==
  ASSUME TypeInv, SentInv, NEW w \in Transport, NEW msg \in Message,
         wire'[w] = Append(wire[w], msg), \A u \in Transport \ {w} : wire'[u] = wire[u],
         inbox' = inbox,
         \A u \in Transport : \A i \in 1 .. Len(wire[u]) : ~SameRequest(wire[u][i], msg),
         \A u \in Transport : \A i \in 1 .. Len(inbox[u]) : ~SameRequest(inbox[u][i], msg)
  PROVE  /\ OneCopy'
         /\ \A u \in Transport : \A i \in 1 .. Len(wire'[u]) :
              \/ i \in 1 .. Len(wire[u]) /\ wire'[u][i] = wire[u][i]
              \/ u = w /\ i = Len(wire[u]) + 1 /\ wire'[u][i] = msg
<1>1. wire \in [Transport -> Seq(Message)]
  BY DEF TypeInv, TypeOK, PollTypes
<1>2. \A u \in Transport : \A i \in 1 .. Len(wire'[u]) :
        \/ i \in 1 .. Len(wire[u]) /\ wire'[u][i] = wire[u][i]
        \/ u = w /\ i = Len(wire[u]) + 1 /\ wire'[u][i] = msg
  <2> SUFFICES ASSUME NEW u \in Transport, NEW i \in 1 .. Len(wire'[u])
               PROVE  \/ i \in 1 .. Len(wire[u]) /\ wire'[u][i] = wire[u][i]
                      \/ u = w /\ i = Len(wire[u]) + 1 /\ wire'[u][i] = msg
    OBVIOUS
  <2>1. CASE u # w
    BY <1>1, <2>1
  <2>2. CASE u = w
    <3>1. wire'[u] = Append(wire[u], msg) /\ wire[u] \in Seq(Message)
      BY <1>1, <2>2
    <3> QED BY <2>2, <3>1
  <2> QED BY <2>1, <2>2
<1>3. OnceOnWires'
  <2> SUFFICES ASSUME NEW u \in Transport, NEW v \in Transport,
                      NEW i \in 1 .. Len(wire'[u]), NEW j \in 1 .. Len(wire'[v]),
                      SameRequest(wire'[u][i], wire'[v][j])
               PROVE  u = v /\ i = j
    BY DEF OnceOnWires, SameRequest, IsResponse
  <2>1. SameRequest(wire'[v][j], wire'[u][i])
    BY DEF SameRequest
  <2> QED BY <1>2, <2>1 DEF SentInv, OneCopy, OnceOnWires
<1>4. OnceInInboxes'
  BY DEF SentInv, OneCopy, OnceInInboxes, SameRequest, IsResponse
<1>5. NotOnBoth'
  <2> SUFFICES ASSUME NEW u \in Transport, NEW v \in Transport,
                      NEW i \in 1 .. Len(wire'[u]), NEW j \in 1 .. Len(inbox[v]),
                      SameRequest(wire'[u][i], inbox[v][j])
               PROVE  FALSE
    BY DEF NotOnBoth, SameRequest, IsResponse
  <2>1. SameRequest(inbox[v][j], wire'[u][i])
    BY DEF SameRequest
  <2> QED BY <1>2, <2>1 DEF SentInv, OneCopy, NotOnBoth
<1> QED BY <1>2, <1>3, <1>4, <1>5 DEF OneCopy

(* The dispatch loop takes the first message: no other copy of it is left. *)
LEMMA ConsumeMoves ==
  ASSUME TypeInv, SentInv, NEW t \in Transport, AtMessage(t), Consume(t), wire' = wire
  PROVE  /\ OneCopy'
         /\ LiveRequest(Head(inbox[t]))
         /\ \A u \in Transport : \A i \in 1 .. Len(inbox'[u]) :
              /\ \E j \in 1 .. Len(inbox[u]) : inbox'[u][i] = inbox[u][j]
              /\ ~SameRequest(inbox'[u][i], Head(inbox[t]))
         /\ \A u \in Transport : \A i \in 1 .. Len(wire[u]) :
              ~SameRequest(wire[u][i], Head(inbox[t]))
<1>1. /\ inbox \in [Transport -> Seq(Message)] /\ inbox[t] # <<>>
      /\ inbox' = [inbox EXCEPT ![t] = Tail(inbox[t])]
  BY DEF TypeInv, TypeOK, PollTypes, AtMessage, Consume
<1>2. /\ Head(inbox[t]) = inbox[t][1] /\ 1 \in 1 .. Len(inbox[t])
      /\ Len(inbox[t]) \in Nat
  BY <1>1
<1> DEFINE pos(u, i) == IF u = t THEN i + 1 ELSE i
<1>3. \A u \in Transport : \A i \in 1 .. Len(inbox'[u]) :
        /\ pos(u, i) \in 1 .. Len(inbox[u]) /\ inbox'[u][i] = inbox[u][pos(u, i)]
        /\ i \in Nat \ {0}
  <2> SUFFICES ASSUME NEW u \in Transport, NEW i \in 1 .. Len(inbox'[u])
               PROVE  /\ pos(u, i) \in 1 .. Len(inbox[u]) /\ inbox'[u][i] = inbox[u][pos(u, i)]
                      /\ i \in Nat \ {0}
    OBVIOUS
  <2>1. CASE u # t
    <3>1. inbox'[u] = inbox[u] /\ pos(u, i) = i /\ Len(inbox[u]) \in Nat
      BY <1>1, <2>1
    <3> QED BY <3>1
  <2>2. CASE u = t
    <3>1. inbox'[u] = Tail(inbox[u]) /\ inbox[u] \in Seq(Message) /\ inbox[u] # <<>>
      BY <1>1, <2>2
    <3> QED BY <2>2, <3>1
  <2> QED BY <2>1, <2>2
<1>4. \A u \in Transport : \A i, j \in Nat \ {0} : pos(u, i) = pos(u, j) => i = j
  OBVIOUS
<1>5. \A i \in Nat \ {0} : pos(t, i) # 1
  OBVIOUS
<1> HIDE DEF pos
<1>6. OnceInInboxes'
  <2> SUFFICES ASSUME NEW u \in Transport, NEW v \in Transport,
                      NEW i \in 1 .. Len(inbox'[u]), NEW j \in 1 .. Len(inbox'[v]),
                      SameRequest(inbox'[u][i], inbox'[v][j])
               PROVE  u = v /\ i = j
    BY DEF OnceInInboxes, SameRequest, IsResponse
  <2>1. /\ pos(u, i) \in 1 .. Len(inbox[u]) /\ inbox'[u][i] = inbox[u][pos(u, i)]
        /\ pos(v, j) \in 1 .. Len(inbox[v]) /\ inbox'[v][j] = inbox[v][pos(v, j)]
    BY <1>3
  <2>2. u = v /\ pos(u, i) = pos(v, j)
    BY <2>1 DEF SentInv, OneCopy, OnceInInboxes
  <2>3. i \in Nat \ {0} /\ j \in Nat \ {0}
    BY <1>3
  <2> QED BY <1>4, <2>2, <2>3
<1>7. OnceOnWires'
  BY DEF SentInv, OneCopy, OnceOnWires, SameRequest, IsResponse
<1>8. NotOnBoth'
  <2> SUFFICES ASSUME NEW u \in Transport, NEW v \in Transport,
                      NEW i \in 1 .. Len(wire[u]), NEW j \in 1 .. Len(inbox'[v])
               PROVE  ~SameRequest(wire[u][i], inbox'[v][j])
    BY DEF NotOnBoth, SameRequest, IsResponse
  <2> QED BY <1>3 DEF SentInv, OneCopy, NotOnBoth
<1>9. \A u \in Transport : \A i \in 1 .. Len(inbox'[u]) : ~SameRequest(inbox'[u][i], Head(inbox[t]))
  <2> SUFFICES ASSUME NEW u \in Transport, NEW i \in 1 .. Len(inbox'[u]),
                      SameRequest(inbox'[u][i], Head(inbox[t]))
               PROVE  FALSE
    OBVIOUS
  <2>1. u = t /\ pos(u, i) = 1
    BY <1>2, <1>3 DEF SentInv, OneCopy, OnceInInboxes
  <2> QED BY <1>3, <1>5, <2>1
<1>10. \A u \in Transport : \A i \in 1 .. Len(wire[u]) : ~SameRequest(wire[u][i], Head(inbox[t]))
  BY <1>2 DEF SentInv, OneCopy, NotOnBoth
<1>11. LiveRequest(Head(inbox[t]))
  BY <1>2 DEF SentInv, InboxesLive
<1> QED BY <1>3, <1>6, <1>7, <1>8, <1>9, <1>10, <1>11 DEF OneCopy

-----------------------------------------------------------------------------
(* A call is given up by its own thread, before anything was sent. *)
LEMMA GiveUp ==
  ASSUME TypeInv, SentInv, NEW i \in CallId, Unsent(i), ~Unsent(i)',
         \A j \in CallId \ {i} : Unsent(j)' <=> Unsent(j),
         refused' = refused \cup {i}, UNCHANGED <<execs, wire, inbox>>
  PROVE  SentInv'
<1>1. \A u \in Transport : wire[u] \in Seq(Message) /\ inbox[u] \in Seq(Message)
  BY DEF TypeInv, TypeOK, PollTypes
<1>2. Fresh(i)
  BY DEF SentInv, UnsentFresh
<1>3. \A j \in CallId \ {i} : Fresh(j)' <=> Fresh(j)
  BY DEF Fresh
<1>4. UnsentFresh'
  BY <1>3 DEF SentInv, UnsentFresh
<1>5. AtMostOnce'
  BY <1>2 DEF SentInv, AtMostOnce, Fresh
<1>6. \A m \in Message : LiveRequest(m) => LiveRequest(m)'
  <2> SUFFICES ASSUME NEW m \in Message, LiveRequest(m), ~IsResponse(m)
               PROVE  Fresh(m.id)' /\ ~Unsent(m.id)'
    BY DEF LiveRequest, IsResponse
  <2>1. m.id \in CallId \ {i}
    BY DEF LiveRequest, Message
  <2> QED BY <1>3, <2>1 DEF LiveRequest
<1>7. WiresLive' /\ InboxesLive'
  BY <1>1, <1>6 DEF SentInv, WiresLive, InboxesLive
<1>8. OneCopy'
  BY DEF SentInv, OneCopy, OnceOnWires, OnceInInboxes, NotOnBoth, SameRequest, IsResponse
<1> QED BY <1>4, <1>5, <1>7, <1>8 DEF SentInv

(* The request is sent: only now may it have an effect. *)
LEMMA SendSent ==
  ASSUME TypeInv, SentInv, NEW c \in Caller, Send(c)
  PROVE  SentInv'
<1>0. /\ peer[call[c].trans] \in Transport /\ Request(c) \in Message
      /\ Id(c) \in CallId /\ Request(c).id = Id(c)
      /\ ncalls[c] \in Nat
  BY TopologyAssumption, RequestType, IdType, SizeAssumption
     DEF Send, TypeInv, TypeOK, CallerTypes, LocalsOK, CallOK, Request
<1>1. PICK w \in Transport, msg \in Message, i \in CallId :
        /\ w = peer[call[c].trans] /\ msg = Request(c) /\ i = Id(c)
        /\ msg.id = i /\ ncalls[c] \in Nat
  BY <1>0
<1>2. /\ cpc[c] = "send" /\ cpc' = [cpc EXCEPT ![c] = "wait"]
      /\ wire' = [wire EXCEPT ![w] = Append(@, msg)]
      /\ UNCHANGED <<ncalls, inbox, execs, refused>>
  BY <1>1 DEF Send, Put, pollVars, histVars
<1>3. Unsent(i)
  BY <1>1, <1>2 DEF Unsent, Id
<1>4. ~Unsent(i)' /\ \A j \in CallId \ {i} : Unsent(j)' <=> Unsent(j)
  <2>1. ~Unsent(i)'
    BY <1>1, <1>2 DEF Unsent, Id, TypeInv, TypeOK, CallerTypes
  <2> SUFFICES ASSUME NEW j \in CallId \ {i} PROVE Unsent(j)' <=> Unsent(j)
    BY <2>1
  <2>2. CASE j[1] = c
    <3>1. j[2] # ncalls[c]
      BY <1>1, <2>2 DEF CallId, Id
    <3> QED BY <1>2, <2>2, <3>1 DEF Unsent
  <2>3. CASE j[1] # c
    <3>1. cpc'[j[1]] = cpc[j[1]]
      BY <1>1, <1>2, <2>3 DEF CallId, TypeInv, TypeOK, CallerTypes
    <3> QED BY <1>2, <3>1 DEF Unsent
  <2> QED BY <2>2, <2>3
<1>5. /\ \A u \in Transport : \A j \in 1 .. Len(wire[u]) : ~SameRequest(wire[u][j], msg)
      /\ \A u \in Transport : \A j \in 1 .. Len(inbox[u]) : ~SameRequest(inbox[u][j], msg)
  BY <1>1, <1>3 DEF SentInv, WiresLive, InboxesLive, LiveRequest, SameRequest
<1>6. /\ OneCopy'
      /\ \A u \in Transport : \A j \in 1 .. Len(wire'[u]) :
           \/ j \in 1 .. Len(wire[u]) /\ wire'[u][j] = wire[u][j]
           \/ u = w /\ j = Len(wire[u]) + 1 /\ wire'[u][j] = msg
  <2>1. /\ wire'[w] = Append(wire[w], msg) /\ inbox' = inbox
        /\ \A u \in Transport \ {w} : wire'[u] = wire[u]
    BY <1>2 DEF TypeInv, TypeOK, PollTypes
  <2> QED BY <1>5, <2>1, PutMoves
<1>7. \A j \in CallId : Fresh(j)' <=> Fresh(j)
  BY <1>2 DEF Fresh
<1>8. \A m \in Message : LiveRequest(m) => LiveRequest(m)'
  <2> SUFFICES ASSUME NEW m \in Message, LiveRequest(m), ~IsResponse(m)
               PROVE  Fresh(m.id)' /\ ~Unsent(m.id)'
    BY DEF LiveRequest, IsResponse
  <2>1. m.id \in CallId
    BY DEF Message
  <2> QED BY <1>4, <1>7, <2>1 DEF LiveRequest
<1>9. LiveRequest(msg)'
  <2>1. Fresh(i)
    BY <1>1, <1>3 DEF SentInv, UnsentFresh
  <2>2. Fresh(i)' /\ ~Unsent(i)'
    BY <1>1, <1>4, <1>7, <2>1
  <2>3. \A m : m.id = i => LiveRequest(m)'
    BY <2>2 DEF LiveRequest
  <2> QED BY <1>1, <2>3
<1>10. UnsentFresh' /\ AtMostOnce'
  BY <1>2, <1>4, <1>7 DEF SentInv, UnsentFresh, AtMostOnce
<1>11. WiresLive'
  <2> SUFFICES ASSUME NEW u \in Transport, NEW j \in 1 .. Len(wire'[u])
               PROVE  \E m \in Message : m = wire'[u][j] /\ LiveRequest(m)'
    BY DEF WiresLive, LiveRequest, Fresh, Unsent, IsResponse
  <2>1. CASE wire'[u][j] = msg
    BY <1>1, <1>9, <2>1
  <2>2. CASE j \in 1 .. Len(wire[u]) /\ wire'[u][j] = wire[u][j]
    <3>1. wire[u][j] \in Message
      BY <2>2 DEF TypeInv, TypeOK, PollTypes
    <3> QED BY <1>8, <2>2, <3>1 DEF SentInv, WiresLive
  <2> QED BY <1>6, <2>1, <2>2
<1>12. InboxesLive'
  <2>1. \A u \in Transport : inbox[u] \in Seq(Message)
    BY DEF TypeInv, TypeOK, PollTypes
  <2> QED BY <1>2, <1>8, <2>1 DEF SentInv, InboxesLive
<1> QED BY <1>6, <1>10, <1>11, <1>12 DEF SentInv

(* A response, or a message that was dropped, has no effect on execution. *)
LEMMA ConsumeNoEffect ==
  ASSUME TypeInv, SentInv, NoEffect, NEW t \in Transport, AtMessage(t), Consume(t), wire' = wire
  PROVE  SentInv'
<1>1. \A u \in Transport : wire[u] \in Seq(Message) /\ inbox[u] \in Seq(Message)
  BY DEF TypeInv, TypeOK, PollTypes
<1>2. UnsentFresh' /\ AtMostOnce' /\ \A m \in Message : LiveRequest(m)' <=> LiveRequest(m)
  BY NoEffectFresh DEF SentInv
<1>3. /\ OneCopy'
      /\ \A u \in Transport : \A i \in 1 .. Len(inbox'[u]) :
           \E j \in 1 .. Len(inbox[u]) : inbox'[u][i] = inbox[u][j]
  BY ConsumeMoves
<1>4. WiresLive'
  BY <1>1, <1>2 DEF SentInv, WiresLive
<1>5. InboxesLive'
  <2> SUFFICES ASSUME NEW u \in Transport, NEW i \in 1 .. Len(inbox'[u])
               PROVE  \E m \in Message : m = inbox'[u][i] /\ LiveRequest(m)'
    BY DEF InboxesLive, LiveRequest, Fresh, Unsent, IsResponse
  <2>1. PICK j \in 1 .. Len(inbox[u]) : inbox'[u][i] = inbox[u][j]
    BY <1>3
  <2>2. inbox[u][j] \in Message /\ LiveRequest(inbox[u][j])
    BY <1>1 DEF SentInv, InboxesLive
  <2> QED BY <1>2, <2>1, <2>2
<1> QED BY <1>2, <1>3, <1>4, <1>5 DEF SentInv

(* rpc_handle_request settles the call of the request it consumed, and of  *)
(* no other request under way.                                             *)
LEMMA RequestSettles ==
  ASSUME TypeInv, SentInv, NEW t \in Transport,
         RequestDropped(t) \/ RequestRefused(t) \/ RequestExecuted(t)
  PROVE  SentInv' /\ Fresh(Head(inbox[t]).id) /\ ~Unsent(Head(inbox[t]).id)
<1> DEFINE msg == Head(inbox[t])
           x == msg.id
<1>1. /\ AtMessage(t) /\ Consume(t) /\ ~IsResponse(msg)
      /\ \/ execs' = execs /\ refused' = refused \cup {x}
         \/ execs' = [execs EXCEPT ![x] = @ + 1] /\ refused' = refused
      /\ UNCHANGED <<wire, cpc, ncalls>>
  BY SizeAssumption DEF RequestDropped, RequestRefused, RequestExecuted, callerVars, linkVars, IsResponse
<1>2. msg \in Message /\ x \in CallId
  BY <1>1, MessageAtHead DEF Message
<1>3. /\ OneCopy'
      /\ LiveRequest(msg)
      /\ \A u \in Transport : \A i \in 1 .. Len(inbox'[u]) :
           /\ \E j \in 1 .. Len(inbox[u]) : inbox'[u][i] = inbox[u][j]
           /\ ~SameRequest(inbox'[u][i], msg)
      /\ \A u \in Transport : \A i \in 1 .. Len(wire[u]) : ~SameRequest(wire[u][i], msg)
  BY <1>1, ConsumeMoves
<1> HIDE DEF msg
<1>4. Fresh(x) /\ ~Unsent(x)
  BY <1>1, <1>3 DEF LiveRequest
<1>5. \A j \in CallId : Unsent(j)' <=> Unsent(j)
  BY <1>1 DEF Unsent
<1>6. execs \in [CallId -> Nat] /\ \A u \in Transport : wire[u] \in Seq(Message) /\ inbox[u] \in Seq(Message)
  BY DEF TypeInv, TypeOK, HistTypes, PollTypes
<1> HIDE DEF x
<1>7. \A j \in CallId \ {x} : Fresh(j)' <=> Fresh(j)
  BY <1>1, <1>6 DEF Fresh
<1>8. UnsentFresh'
  BY <1>4, <1>5, <1>7 DEF SentInv, UnsentFresh
<1>9. AtMostOnce'
  <2> SUFFICES ASSUME NEW j \in CallId
               PROVE  execs'[j] + (IF j \in refused' THEN 1 ELSE 0) <= 1
    BY DEF AtMostOnce
  <2>1. CASE j = x
    BY <1>1, <1>2, <1>4, <1>6, <2>1 DEF Fresh
  <2>2. CASE j # x
    <3>1. execs'[j] = execs[j] /\ (j \in refused' <=> j \in refused)
      BY <1>1, <1>6, <2>2
    <3> QED BY <3>1 DEF SentInv, AtMostOnce
  <2> QED BY <2>1, <2>2
<1>10. \A m \in Message : LiveRequest(m) /\ ~SameRequest(m, msg) => LiveRequest(m)'
  <2> SUFFICES ASSUME NEW m \in Message, LiveRequest(m), ~SameRequest(m, msg), ~IsResponse(m)
               PROVE  Fresh(m.id)' /\ ~Unsent(m.id)'
    BY DEF LiveRequest, IsResponse
  <2>1. m.id \in CallId /\ m.id # x
    BY <1>1 DEF SameRequest, Message, x
  <2> QED BY <1>5, <1>7, <2>1 DEF LiveRequest
<1>11. WiresLive'
  <2> SUFFICES ASSUME NEW u \in Transport, NEW i \in 1 .. Len(wire[u])
               PROVE  \E m \in Message : m = wire[u][i] /\ LiveRequest(m)'
    BY <1>1 DEF WiresLive, LiveRequest, Fresh, Unsent, IsResponse
  <2> QED BY <1>3, <1>6, <1>10 DEF SentInv, WiresLive
<1>12. InboxesLive'
  <2> SUFFICES ASSUME NEW u \in Transport, NEW i \in 1 .. Len(inbox'[u])
               PROVE  \E m \in Message : m = inbox'[u][i] /\ LiveRequest(m)'
    BY DEF InboxesLive, LiveRequest, Fresh, Unsent, IsResponse
  <2>1. PICK j \in 1 .. Len(inbox[u]) : inbox'[u][i] = inbox[u][j]
    BY <1>3
  <2>2. inbox[u][j] \in Message /\ LiveRequest(inbox[u][j]) /\ ~SameRequest(inbox[u][j], msg)
    BY <1>3, <1>6, <2>1 DEF SentInv, InboxesLive
  <2> QED BY <1>10, <2>1, <2>2
<1> QED BY <1>3, <1>4, <1>8, <1>9, <1>11, <1>12 DEF SentInv, x, msg

(* Every step of a caller but LookupFails, EnterNoMem, Send and SendFails. *)
LEMMA CallerNoEffect ==
  ASSUME TypeInv, NEW c \in Caller,
         \/ \E m \in Name : Lookup(c, m)
         \/ \E s \in SeqNo : Enter(c, s)
         \/ WaitSignaled(c) \/ WaitBlocks(c) \/ WaitWoken(c) \/ WaitTimesOut(c) \/ Leave(c)
  PROVE  NoEffect /\ UNCHANGED <<wire, inbox>>
<1> USE DEF TypeInv, TypeOK, CallerTypes
<1>1. UNCHANGED <<execs, refused, wire, inbox>>
  BY DEF Lookup, Enter, WaitSignaled, WaitBlocks, WaitWoken, WaitReturns0, WaitTimesOut, Leave,
         pollVars, linkVars, histVars
<1>2. \/ cpc[c] = "idle" /\ cpc'[c] = "enter" /\ ncalls'[c] = ncalls[c] + 1
      \/ cpc[c] = "enter" /\ cpc'[c] = "send" /\ ncalls'[c] = ncalls[c]
      \/ /\ cpc[c] \notin {"enter", "send"} /\ cpc'[c] \notin {"enter", "send"}
         /\ ncalls'[c] = ncalls[c]
  BY DEF Lookup, Enter, WaitSignaled, WaitBlocks, WaitWoken, WaitReturns0, WaitTimesOut, Leave, Return
<1>3. \A d \in Caller \ {c} : cpc'[d] = cpc[d] /\ ncalls'[d] = ncalls[d]
  BY DEF Lookup, Enter, WaitSignaled, WaitBlocks, WaitWoken, WaitReturns0, WaitTimesOut, Leave, Return
<1>4. \A i \in CallId : Unsent(i)' <=> Unsent(i)
  <2> SUFFICES ASSUME NEW i \in CallId PROVE Unsent(i)' <=> Unsent(i)
    OBVIOUS
  <2>1. i[1] \in Caller /\ i[2] \in Nat /\ ncalls[i[1]] \in Nat
    BY SizeAssumption DEF CallId
  <2>2. CASE i[1] = c
    BY <1>2, <2>1, <2>2 DEF Unsent
  <2>3. CASE i[1] # c
    BY <1>3, <2>1, <2>3 DEF Unsent
  <2> QED BY <2>2, <2>3
<1> QED BY <1>1, <1>4 DEF NoEffect

(* The three ways a call fails before it is sent. *)
LEMMA CallerGivesUp ==
  ASSUME TypeInv, NEW c \in Caller,
         \/ \E m \in Name : LookupFails(c, m)
         \/ \E s \in SeqNo : EnterNoMem(c, s)
         \/ SendFails(c)
  PROVE  \E i \in CallId :
           /\ i = <<c, ncalls'[c]>> /\ Unsent(i) /\ ~Unsent(i)'
           /\ \A j \in CallId \ {i} : Unsent(j)' <=> Unsent(j)
           /\ refused' = refused \cup {i}
           /\ ret' = [ret EXCEPT ![i] = -4] \/ ret' = [ret EXCEPT ![i] = -3]
           /\ UNCHANGED <<execs, wire, inbox>>
<1> USE DEF TypeInv, TypeOK, CallerTypes
<1>1. UNCHANGED <<execs, wire, inbox>>
  BY DEF LookupFails, EnterNoMem, SendFails, pollVars, linkVars, histVars
<1>2. \/ /\ cpc[c] = "idle" /\ cpc' = cpc /\ ncalls[c] < MaxCalls
         /\ ncalls' = [ncalls EXCEPT ![c] = @ + 1]
      \/ /\ cpc[c] \in {"enter", "send"} /\ cpc' = [cpc EXCEPT ![c] = "idle"]
         /\ ncalls' = ncalls
  BY DEF LookupFails, EnterNoMem, SendFails, Return
<1>3. ncalls[c] \in Nat /\ ncalls'[c] \in Nat
  BY <1>2, SizeAssumption
<1>4. PICK i : i = <<c, ncalls'[c]>>
  OBVIOUS
<1>5. i \in CallId
  <2>1. cpc[c] # "idle" => ncalls[c] >= 1
    BY DEF LocalsOK, CallOK
  <2>2. ncalls'[c] \in 1 .. MaxCalls
    BY <1>2, <1>3, <2>1, SizeAssumption
  <2> QED BY <1>4, <2>2 DEF CallId
<1>6. refused' = refused \cup {i}
  BY <1>4 DEF LookupFails, EnterNoMem, SendFails, Id
<1>7. ret' = [ret EXCEPT ![i] = -4] \/ ret' = [ret EXCEPT ![i] = -3]
  BY <1>4 DEF LookupFails, EnterNoMem, SendFails, Return, Id, RPC_STATUS_TRANSPORT_ERROR,
              RPC_STATUS_INTERNAL_ERROR
<1>8. Unsent(i) /\ ~Unsent(i)'
  BY <1>2, <1>3, <1>4 DEF Unsent
<1>9. \A j \in CallId \ {i} : Unsent(j)' <=> Unsent(j)
  <2> SUFFICES ASSUME NEW j \in CallId \ {i} PROVE Unsent(j)' <=> Unsent(j)
    OBVIOUS
  <2>1. j[1] \in Caller /\ j[2] \in Nat /\ ncalls[j[1]] \in Nat /\ j = <<j[1], j[2]>>
    BY SizeAssumption DEF CallId
  <2>2. CASE j[1] = c
    <3>1. j[2] # ncalls'[c]
      BY <1>4, <2>1, <2>2
    <3> QED BY <1>2, <1>3, <2>1, <2>2, <3>1 DEF Unsent
  <2>3. CASE j[1] # c
    BY <1>2, <2>1, <2>3 DEF Unsent
  <2> QED BY <2>2, <2>3
<1> QED BY <1>1, <1>4, <1>5, <1>6, <1>7, <1>8, <1>9

(* What a poll thread is about to send is a response. *)
ReplyInv == \A t \in Transport : ppc[t] = "reply" => IsResponse(reply[t])

LEMMA ReplyInit == Init => ReplyInv
BY DEF Init, ReplyInv

LEMMA ReplyNext == TypeInv /\ ReplyInv /\ [Next]_vars => ReplyInv'
<1> SUFFICES ASSUME TypeInv, ReplyInv, [Next]_vars PROVE ReplyInv'
  OBVIOUS
<1> USE DEF TypeInv, TypeOK, PollTypes
<1>1. ASSUME NEW t \in Transport, RequestRefused(t) \/ RequestExecuted(t) PROVE ReplyInv'
  <2>1. PICK msg, st : Answer(t, msg, st)
    BY <1>1 DEF RequestRefused, RequestExecuted
  <2>2. IsResponse(Response(msg, st))
    BY DEF IsResponse, Response
  <2>3. reply'[t] = Response(msg, st) /\ \A u \in Transport \ {t} : reply'[u] = reply[u] /\ ppc'[u] = ppc[u]
    BY <2>1 DEF Answer
  <2> QED BY <2>2, <2>3 DEF ReplyInv, IsResponse
<1>2. ASSUME NEW t \in Transport, Reply(t) \/ ReplyLost(t) PROVE ReplyInv'
  BY <1>2 DEF Reply, ReplyLost, ReplyInv, IsResponse
<1>3. ASSUME NEW t \in Transport,
             \/ \E k \in 1 .. ChanCap : Recv(t, k) \/ PollRecv(t, k)
             \/ OnDataLock(t) \/ PollLock(t) \/ PollEmpty(t) \/ OnDataUnlock(t)
      PROVE  ReplyInv'
  <2>1. reply' = reply /\ \E q \in {"recv", "lock", "poll", "loop"} : ppc' = [ppc EXCEPT ![t] = q]
    BY <1>3 DEF Recv, PollRecv, OnDataLock, PollLock, PollEmpty, OnDataUnlock
  <2> QED BY <2>1 DEF ReplyInv, IsResponse
<1>4. ASSUME UNCHANGED <<reply, ppc>> PROVE ReplyInv'
  BY <1>4 DEF ReplyInv, IsResponse
<1>5. ASSUME NEW c \in Caller,
             \/ \E m \in Name : Lookup(c, m) \/ LookupFails(c, m)
             \/ \E s \in SeqNo : Enter(c, s) \/ EnterNoMem(c, s)
             \/ Send(c) \/ SendFails(c) \/ WaitSignaled(c) \/ WaitBlocks(c)
             \/ WaitWoken(c) \/ WaitTimesOut(c) \/ Leave(c)
      PROVE  UNCHANGED <<reply, ppc>>
  BY <1>5 DEF Lookup, LookupFails, Enter, EnterNoMem, Send, SendFails, WaitSignaled, WaitBlocks,
              WaitWoken, WaitReturns0, WaitTimesOut, Leave, pollVars
<1>6. ASSUME \/ \E x \in Binds : rpc_bind_transport(x[1], x[2], x[3])
             \/ \E x \in Registers : rpc_register_method(x[1], x[2])
             \/ \E t \in Transport : \/ DropNoMem(t) \/ HandleResponse(t) \/ RequestDropped(t)
                                     \/ LinkDown(t)
             \/ UNCHANGED vars
      PROVE  UNCHANGED <<reply, ppc>>
  BY <1>6 DEF rpc_bind_transport, rpc_register_method, DropNoMem, HandleResponse, RequestDropped,
              LinkDown, vars, pollVars
<1> QED BY <1>1, <1>2, <1>3, <1>4, <1>5, <1>6 DEF Next

LEMMA SentNext == TypeInv /\ ReplyInv /\ SentInv /\ [Next]_vars => SentInv'
<1> SUFFICES ASSUME TypeInv, ReplyInv, SentInv, [Next]_vars PROVE SentInv'
  OBVIOUS
<1>1. ASSUME NEW c \in Caller,
             \/ \E m \in Name : Lookup(c, m)
             \/ \E s \in SeqNo : Enter(c, s)
             \/ WaitSignaled(c) \/ WaitBlocks(c) \/ WaitWoken(c) \/ WaitTimesOut(c) \/ Leave(c)
      PROVE  SentInv'
  BY <1>1, CallerNoEffect, NothingMoves
<1>2. ASSUME NEW c \in Caller,
             \/ \E m \in Name : LookupFails(c, m)
             \/ \E s \in SeqNo : EnterNoMem(c, s)
             \/ SendFails(c)
      PROVE  SentInv'
  BY <1>2, CallerGivesUp, GiveUp
<1>3. ASSUME NEW c \in Caller, Send(c) PROVE SentInv'
  BY <1>3, SendSent
<1>4. ASSUME UNCHANGED <<execs, refused, cpc, ncalls>> PROVE NoEffect
  BY <1>4 DEF NoEffect, Unsent
<1>5. ASSUME NEW t \in Transport, NEW k \in 1 .. ChanCap, Recv(t, k) \/ PollRecv(t, k)
      PROVE  SentInv'
  <2>1. Take(t, k) /\ UNCHANGED <<execs, refused, cpc, ncalls>>
    BY <1>5 DEF Recv, PollRecv, callerVars, histVars
  <2> QED BY <1>4, <2>1, ReceiveMoves
<1>6. ASSUME NEW t \in Transport, DropNoMem(t) \/ HandleResponse(t) PROVE SentInv'
  <2>1. AtMessage(t) /\ Consume(t) /\ UNCHANGED <<execs, refused, cpc, ncalls, wire>>
    BY <1>6 DEF DropNoMem, HandleResponse, callerVars, linkVars, histVars
  <2> QED BY <1>4, <2>1, ConsumeNoEffect
<1>7. ASSUME NEW t \in Transport, RequestDropped(t) \/ RequestRefused(t) \/ RequestExecuted(t)
      PROVE  SentInv'
  BY <1>7, RequestSettles
<1>8. ASSUME NEW t \in Transport, LinkDown(t) PROVE SentInv'
  <2>1. /\ UNCHANGED <<execs, refused, cpc, ncalls, inbox>>
        /\ \A u \in Transport : wire'[u] = wire[u] \/ wire'[u] = <<>>
    BY <1>8 DEF LinkDown, callerVars, pollVars, histVars
  <2> QED BY <1>4, <2>1, BreakMoves
<1>9. ASSUME UNCHANGED <<execs, refused, cpc, ncalls, wire, inbox>> PROVE SentInv'
  BY <1>4, <1>9, NothingMoves
<1>10. ASSUME \/ \E x \in Binds : rpc_bind_transport(x[1], x[2], x[3])
              \/ \E x \in Registers : rpc_register_method(x[1], x[2])
              \/ \E t \in Transport : \/ OnDataLock(t) \/ PollLock(t) \/ PollEmpty(t)
                                      \/ ReplyLost(t) \/ OnDataUnlock(t)
              \/ UNCHANGED vars
       PROVE  UNCHANGED <<execs, refused, cpc, ncalls, wire, inbox>>
  BY <1>10 DEF rpc_bind_transport, rpc_register_method, OnDataLock, PollLock, PollEmpty, ReplyLost,
               OnDataUnlock, vars, callerVars, pollVars, linkVars, histVars
<1>11. ASSUME NEW t \in Transport, Reply(t) PROVE SentInv'
  <2>1. PICK w \in Transport, msg \in Message : w = peer[t] /\ msg = reply[t] /\ IsResponse(msg)
    BY <1>11, TopologyAssumption DEF Reply, TypeInv, LocalsOK, ReplyInv
  <2>2. /\ wire'[w] = Append(wire[w], msg)
        /\ \A u \in Transport \ {w} : wire'[u] = wire[u]
        /\ UNCHANGED <<execs, refused, cpc, ncalls, inbox>>
    BY <1>11, <2>1 DEF Reply, Put, callerVars, histVars, TypeInv, TypeOK, PollTypes
  <2>3. \A m : ~SameRequest(m, msg)
    BY <2>1 DEF SameRequest
  <2>4. /\ OneCopy'
        /\ \A u \in Transport : \A i \in 1 .. Len(wire'[u]) :
             \/ i \in 1 .. Len(wire[u]) /\ wire'[u][i] = wire[u][i]
             \/ u = w /\ i = Len(wire[u]) + 1 /\ wire'[u][i] = msg
    BY <2>2, <2>3, PutMoves
  <2>5. UnsentFresh' /\ AtMostOnce' /\ \A m \in Message : LiveRequest(m)' <=> LiveRequest(m)
    BY <1>4, <2>2, NoEffectFresh DEF SentInv
  <2>6. \A u \in Transport : wire[u] \in Seq(Message) /\ inbox[u] \in Seq(Message)
    BY DEF TypeInv, TypeOK, PollTypes
  <2>7. InboxesLive'
    BY <2>2, <2>5, <2>6 DEF SentInv, InboxesLive
  <2>8. WiresLive'
    <3> SUFFICES ASSUME NEW u \in Transport, NEW i \in 1 .. Len(wire'[u])
                 PROVE  \E m \in Message : m = wire'[u][i] /\ LiveRequest(m)'
      BY DEF WiresLive, LiveRequest, Fresh, Unsent, IsResponse
    <3>1. LiveRequest(msg)
      BY <2>1 DEF LiveRequest
    <3>2. CASE wire'[u][i] = msg
      BY <2>5, <3>1, <3>2
    <3>3. CASE i \in 1 .. Len(wire[u]) /\ wire'[u][i] = wire[u][i]
      BY <2>5, <2>6, <3>3 DEF SentInv, WiresLive
    <3> QED BY <2>4, <3>2, <3>3
  <2> QED BY <2>4, <2>5, <2>7, <2>8 DEF SentInv
<1> QED
  BY <1>1, <1>2, <1>3, <1>5, <1>6, <1>7, <1>8, <1>9, <1>10, <1>11 DEF Next

(* A handler runs at most once for a call, and never for a call that its   *)
(* own node or the remote one has given up: rpc_call_with_tlv sends one    *)
(* request per call, rpc_on_data consumes every copy it dispatches, and no *)
(* thread, failure or timeout brings a request back.                       *)
THEOREM AtMostOnceHolds == Spec => []AtMostOnce
<1>1. Spec => [](TypeInv /\ ReplyInv /\ SentInv)
  BY TypeInit, TypeNext, ReplyInit, ReplyNext, SentInit, SentNext, PTL DEF Spec
<1>2. SentInv => AtMostOnce
  BY DEF SentInv
<1> QED BY <1>1, <1>2, PTL

-----------------------------------------------------------------------------
(* A status tells the truth about call i. *)
Tells(i, st) ==
  /\ st \in {0, 3} => execs[i] = 1
  /\ st \in {1, 2} => i \in refused
  /\ st \in 0 .. 3

TellsMsg(m) == IsResponse(m) => Tells(m.id, m.status)

WiresTrue   == \A u \in Transport : \A i \in 1 .. Len(wire[u]) : TellsMsg(wire[u][i])
InboxesTrue == \A u \in Transport : \A i \in 1 .. Len(inbox[u]) : TellsMsg(inbox[u][i])
RepliesTrue == \A u \in Transport : ppc[u] = "reply" => TellsMsg(reply[u])
AnswersTrue ==
  \A c \in Caller :
    call[c].done => call[c].from \in CallId /\ Tells(call[c].from, call[c].status)

ResultTrue(i) ==
  /\ ret[i] \in {0, 3} => execs[i] = 1
  /\ ret[i] \in {1, 2, -3, -4} => i \in refused

ResultsTrue == \A i \in CallId : Unwrapped(home[i[1]]) => ResultTrue(i)

TrueInv == NonEmptyNames => WiresTrue /\ InboxesTrue /\ RepliesTrue /\ AnswersTrue /\ ResultsTrue

LEMMA TrueInit == Init => TrueInv
<1> SUFFICES ASSUME Init PROVE WiresTrue /\ InboxesTrue /\ RepliesTrue /\ AnswersTrue /\ ResultsTrue
  BY DEF TrueInv
<1>1. WiresTrue /\ InboxesTrue /\ RepliesTrue
  BY DEF Init, WiresTrue, InboxesTrue, RepliesTrue
<1>2. AnswersTrue
  BY DEF Init, AnswersTrue, NewCall
<1>3. Null \notin -4 .. 3
  BY NullAssumption, SizeAssumption
<1>4. ResultsTrue
  <2> SUFFICES ASSUME NEW i \in CallId PROVE ResultTrue(i)
    BY DEF ResultsTrue
  <2>1. ret[i] = Null
    BY DEF Init
  <2> QED BY <1>3, <2>1 DEF ResultTrue
<1> QED BY <1>1, <1>2, <1>4

(* What is known of a call's execution stays true. *)
LEMMA EffectsGrow ==
  ASSUME TypeInv, SentInv, SentInv', [Next]_vars
  PROVE  /\ refused \subseteq refused'
         /\ \A i \in CallId : execs[i] = 1 => execs'[i] = 1
         /\ \A i \in CallId : \A st : Tells(i, st) => Tells(i, st)'
<1>0. execs \in [CallId -> Nat]
  BY DEF TypeInv, TypeOK, HistTypes
<1>1. \/ execs' = execs /\ refused \subseteq refused'
      \/ \E x \in CallId : execs' = [execs EXCEPT ![x] = @ + 1] /\ refused' = refused
  <2>1. ASSUME NEW t \in Transport, RequestExecuted(t)
        PROVE  \E x \in CallId : execs' = [execs EXCEPT ![x] = @ + 1] /\ refused' = refused
    <3>1. Head(inbox[t]).id \in CallId
      BY <2>1, MessageAtHead DEF RequestExecuted, Message
    <3> QED BY <2>1, <3>1 DEF RequestExecuted
  <2>2. ASSUME NEW t \in Transport,
               \/ \E k \in 1 .. ChanCap : Recv(t, k) \/ PollRecv(t, k)
               \/ OnDataLock(t) \/ PollLock(t) \/ PollEmpty(t) \/ DropNoMem(t) \/ HandleResponse(t)
               \/ RequestDropped(t) \/ RequestRefused(t)
               \/ Reply(t) \/ ReplyLost(t) \/ OnDataUnlock(t) \/ LinkDown(t)
        PROVE  execs' = execs /\ refused \subseteq refused'
    BY <2>2 DEF Recv, PollRecv, OnDataLock, PollLock, PollEmpty, DropNoMem, HandleResponse,
                RequestDropped, RequestRefused, Reply, ReplyLost, OnDataUnlock, LinkDown, histVars
  <2>3. ASSUME NEW c \in Caller,
               \/ \E m \in Name : Lookup(c, m) \/ LookupFails(c, m)
               \/ \E s \in SeqNo : Enter(c, s) \/ EnterNoMem(c, s)
               \/ Send(c) \/ SendFails(c) \/ WaitSignaled(c) \/ WaitBlocks(c)
               \/ WaitWoken(c) \/ WaitTimesOut(c) \/ Leave(c)
        PROVE  execs' = execs /\ refused \subseteq refused'
    BY <2>3 DEF Lookup, LookupFails, Enter, EnterNoMem, Send, SendFails, WaitSignaled, WaitBlocks,
                WaitWoken, WaitReturns0, WaitTimesOut, Leave, histVars
  <2>4. (\E x \in Binds : rpc_bind_transport(x[1], x[2], x[3]))
        \/ (\E x \in Registers : rpc_register_method(x[1], x[2])) \/ UNCHANGED vars
        => execs' = execs /\ refused \subseteq refused'
    BY DEF rpc_bind_transport, rpc_register_method, vars, histVars
  <2> QED BY <2>1, <2>2, <2>3, <2>4 DEF Next
<1>2. refused \subseteq refused'
  BY <1>1
<1>3. \A i \in CallId : execs[i] = 1 => execs'[i] = 1
  <2> SUFFICES ASSUME NEW i \in CallId, execs[i] = 1 PROVE execs'[i] = 1
    OBVIOUS
  <2>1. CASE execs' = execs
    BY <2>1
  <2>2. ASSUME NEW x \in CallId, execs' = [execs EXCEPT ![x] = @ + 1] PROVE execs'[i] = 1
    <3>1. execs'[i] + (IF i \in refused' THEN 1 ELSE 0) <= 1
      BY DEF SentInv, AtMostOnce
    <3>2. i = x => execs'[i] = 2
      BY <1>0, <2>2
    <3> QED BY <1>0, <2>2, <3>1, <3>2
  <2> QED BY <1>1, <2>1, <2>2
<1> QED BY <1>2, <1>3 DEF Tells

(* Where the messages of a step's successor state come from.               *)
FromWire(m, u)  == \E j \in 1 .. Len(wire[u]) : m = wire[u][j]
FromInbox(m, u) == \E j \in 1 .. Len(inbox[u]) : m = inbox[u][j]

Origins ==
  /\ \A u \in Transport : \A i \in 1 .. Len(wire'[u]) :
       \/ FromWire(wire'[u][i], u)
       \/ \E c \in Caller : cpc[c] = "send" /\ wire'[u][i] = Request(c)
       \/ \E t \in Transport : ppc[t] = "reply" /\ wire'[u][i] = reply[t]
  /\ \A u \in Transport : \A i \in 1 .. Len(inbox'[u]) :
       FromInbox(inbox'[u][i], u) \/ FromWire(inbox'[u][i], u)

LEMMA OriginsHold == ASSUME TypeInv, [Next]_vars PROVE Origins
<1>0. wire \in [Transport -> Seq(Message)] /\ inbox \in [Transport -> Seq(Message)]
  BY DEF TypeInv, TypeOK, PollTypes
<1>1. ASSUME UNCHANGED <<wire, inbox>> PROVE Origins
  BY <1>1 DEF Origins, FromWire, FromInbox
<1>2. ASSUME NEW w \in Transport, NEW msg \in Message, inbox' = inbox,
             wire'[w] = Append(wire[w], msg), \A u \in Transport \ {w} : wire'[u] = wire[u]
      PROVE  /\ \A u \in Transport : \A i \in 1 .. Len(wire'[u]) :
                  FromWire(wire'[u][i], u) \/ wire'[u][i] = msg
             /\ \A u \in Transport : \A i \in 1 .. Len(inbox'[u]) : FromInbox(inbox'[u][i], u)
  <2> SUFFICES ASSUME NEW u \in Transport, NEW i \in 1 .. Len(wire'[u])
               PROVE  FromWire(wire'[u][i], u) \/ wire'[u][i] = msg
    BY <1>2 DEF FromInbox
  <2>1. CASE u # w
    BY <1>0, <1>2, <2>1 DEF FromWire
  <2>2. CASE u = w
    <3>1. wire'[u] = Append(wire[u], msg) /\ wire[u] \in Seq(Message)
      BY <1>0, <1>2, <2>2
    <3>2. (i \in 1 .. Len(wire[u]) /\ wire'[u][i] = wire[u][i]) \/ wire'[u][i] = msg
      BY <3>1
    <3> QED BY <3>2 DEF FromWire
  <2> QED BY <2>1, <2>2
<1>3. ASSUME NEW c \in Caller, Send(c) PROVE Origins
  <2>1. peer[call[c].trans] \in Transport /\ Request(c) \in Message
    BY <1>3, TopologyAssumption, RequestType DEF Send, TypeInv, LocalsOK, CallOK
  <2>2. /\ cpc[c] = "send" /\ inbox' = inbox
        /\ wire'[peer[call[c].trans]] = Append(wire[peer[call[c].trans]], Request(c))
        /\ \A u \in Transport \ {peer[call[c].trans]} : wire'[u] = wire[u]
    BY <1>0, <1>3, <2>1 DEF Send, Put, pollVars
  <2>3. /\ \A u \in Transport : \A i \in 1 .. Len(wire'[u]) :
             FromWire(wire'[u][i], u) \/ wire'[u][i] = Request(c)
        /\ \A u \in Transport : \A i \in 1 .. Len(inbox'[u]) : FromInbox(inbox'[u][i], u)
    BY <1>2, <2>1, <2>2
  <2> QED BY <2>2, <2>3 DEF Origins
<1>4. ASSUME NEW t \in Transport, Reply(t) PROVE Origins
  <2>1. peer[t] \in Transport /\ reply[t] \in Message
    BY <1>4, TopologyAssumption DEF Reply, TypeInv, LocalsOK
  <2>2. /\ ppc[t] = "reply" /\ inbox' = inbox
        /\ wire'[peer[t]] = Append(wire[peer[t]], reply[t])
        /\ \A u \in Transport \ {peer[t]} : wire'[u] = wire[u]
    BY <1>0, <1>4, <2>1 DEF Reply, Put
  <2> QED BY <1>2, <2>1, <2>2 DEF Origins
<1>5. ASSUME NEW t \in Transport, NEW k \in 1 .. ChanCap, Recv(t, k) \/ PollRecv(t, k)
      PROVE  Origins
  <2>1. /\ k \in 1 .. Len(wire[t])
        /\ inbox' = [inbox EXCEPT ![t] = SubSeq(wire[t], 1, k)]
        /\ wire' = [wire EXCEPT ![t] = SubSeq(wire[t], k + 1, Len(wire[t]))]
    BY <1>5 DEF Recv, PollRecv, Take
  <2>2. wire[t] \in Seq(Message) /\ Len(wire[t]) \in Nat
    BY <1>0
  <2>3. /\ \A i \in 1 .. Len(inbox'[t]) : FromWire(inbox'[t][i], t)
        /\ \A i \in 1 .. Len(wire'[t]) : FromWire(wire'[t][i], t)
    <3>1. inbox'[t] = SubSeq(wire[t], 1, k) /\ wire'[t] = SubSeq(wire[t], k + 1, Len(wire[t]))
      BY <1>0, <2>1
    <3>2. \A i \in 1 .. Len(inbox'[t]) : i \in 1 .. Len(wire[t]) /\ inbox'[t][i] = wire[t][i]
      BY <2>1, <2>2, <3>1
    <3>3. \A i \in 1 .. Len(wire'[t]) : i + k \in 1 .. Len(wire[t]) /\ wire'[t][i] = wire[t][i + k]
      BY <2>1, <2>2, <3>1
    <3> QED BY <3>2, <3>3 DEF FromWire
  <2>4. \A u \in Transport \ {t} : wire'[u] = wire[u] /\ inbox'[u] = inbox[u]
    BY <1>0, <2>1
  <2>5. \A u \in Transport \ {t} :
          /\ \A i \in 1 .. Len(wire'[u]) : FromWire(wire'[u][i], u)
          /\ \A i \in 1 .. Len(inbox'[u]) : FromInbox(inbox'[u][i], u)
    BY <2>4 DEF FromWire, FromInbox
  <2> QED BY <2>3, <2>5 DEF Origins
<1>6. ASSUME NEW t \in Transport, AtMessage(t), Consume(t), wire' = wire PROVE Origins
  <2>1. /\ inbox' = [inbox EXCEPT ![t] = Tail(inbox[t])]
        /\ inbox[t] \in Seq(Message) /\ inbox[t] # <<>>
    BY <1>0, <1>6 DEF AtMessage, Consume
  <2>2. inbox'[t] = Tail(inbox[t]) /\ \A u \in Transport \ {t} : inbox'[u] = inbox[u]
    BY <1>0, <2>1
  <2>3. \A i \in 1 .. Len(inbox'[t]) : i + 1 \in 1 .. Len(inbox[t]) /\ inbox'[t][i] = inbox[t][i + 1]
    <3> SUFFICES ASSUME NEW i \in 1 .. Len(Tail(inbox[t]))
                 PROVE  i + 1 \in 1 .. Len(inbox[t]) /\ Tail(inbox[t])[i] = inbox[t][i + 1]
      BY <2>2
    <3> QED BY <2>1
  <2>4. \A u \in Transport : \A i \in 1 .. Len(inbox'[u]) : FromInbox(inbox'[u][i], u)
    BY <2>2, <2>3 DEF FromInbox
  <2> QED BY <1>6, <2>4 DEF Origins, FromWire
<1>7. ASSUME NEW t \in Transport, LinkDown(t) PROVE Origins
  <2>1. inbox' = inbox /\ \A u \in Transport : wire'[u] = wire[u] \/ wire'[u] = <<>>
    BY <1>7 DEF LinkDown, pollVars
  <2>2. \A u \in Transport : \A i \in 1 .. Len(wire'[u]) : i \in 1 .. Len(wire[u]) /\ wire'[u][i] = wire[u][i]
    BY <2>1
  <2> QED BY <2>1, <2>2 DEF Origins, FromWire, FromInbox
<1>8. ASSUME NEW t \in Transport,
             \/ DropNoMem(t) \/ HandleResponse(t) \/ RequestDropped(t) \/ RequestRefused(t)
             \/ RequestExecuted(t)
      PROVE  Origins
  BY <1>6, <1>8 DEF DropNoMem, HandleResponse, RequestDropped, RequestRefused, RequestExecuted, linkVars
<1>9. ASSUME NEW c \in Caller,
             \/ \E m \in Name : Lookup(c, m) \/ LookupFails(c, m)
             \/ \E s \in SeqNo : Enter(c, s) \/ EnterNoMem(c, s)
             \/ SendFails(c) \/ WaitSignaled(c) \/ WaitBlocks(c)
             \/ WaitWoken(c) \/ WaitTimesOut(c) \/ Leave(c)
      PROVE  UNCHANGED <<wire, inbox>>
  BY <1>9 DEF Lookup, LookupFails, Enter, EnterNoMem, SendFails, WaitSignaled, WaitBlocks,
              WaitWoken, WaitReturns0, WaitTimesOut, Leave, pollVars, linkVars
<1>10. ASSUME \/ \E x \in Binds : rpc_bind_transport(x[1], x[2], x[3])
              \/ \E x \in Registers : rpc_register_method(x[1], x[2])
              \/ \E t \in Transport : \/ OnDataLock(t) \/ PollLock(t) \/ PollEmpty(t)
                                      \/ ReplyLost(t) \/ OnDataUnlock(t)
              \/ UNCHANGED vars
       PROVE  UNCHANGED <<wire, inbox>>
  BY <1>10 DEF rpc_bind_transport, rpc_register_method, OnDataLock, PollLock, PollEmpty, ReplyLost,
               OnDataUnlock, vars, pollVars, linkVars
<1> QED BY <1>1, <1>3, <1>4, <1>5, <1>7, <1>8, <1>9, <1>10 DEF Next

(* A status on its way, in a buffer or in a call record, stays true. *)
LEMMA MessagesTrue ==
  ASSUME NonEmptyNames, TypeInv, SentInv, SentInv', TrueInv, [Next]_vars
  PROVE  WiresTrue' /\ InboxesTrue'
<1>1. \A u \in Transport : wire[u] \in Seq(Message) /\ inbox[u] \in Seq(Message)
  BY DEF TypeInv, TypeOK, PollTypes
<1>2. \A m \in Message : TellsMsg(m) => TellsMsg(m)'
  <2> SUFFICES ASSUME NEW m \in Message, IsResponse(m), Tells(m.id, m.status)
               PROVE  Tells(m.id, m.status)'
    BY DEF TellsMsg, IsResponse
  <2>1. m.id \in CallId
    BY DEF Message
  <2> QED BY <2>1, EffectsGrow
<1>3. \A u \in Transport : \A m : FromWire(m, u) \/ FromInbox(m, u) => m \in Message /\ TellsMsg(m)
  BY <1>1 DEF FromWire, FromInbox, TrueInv, WiresTrue, InboxesTrue
<1>4. \A c \in Caller : cpc[c] = "send" => Request(c) \in Message /\ TellsMsg(Request(c))
  <2> SUFFICES ASSUME NEW c \in Caller, cpc[c] = "send"
               PROVE  Request(c) \in Message /\ TellsMsg(Request(c))
    OBVIOUS
  <2>1. call[c].name \in Name
    BY DEF TypeInv, LocalsOK, CallOK
  <2>2. Request(c).mlen = NameLen[call[c].name]
    BY DEF Request
  <2>3. ~IsResponse(Request(c))
    BY <2>1, <2>2, SizeAssumption DEF NonEmptyNames, IsResponse
  <2> QED BY <2>3, RequestType DEF TellsMsg
<1>5. \A t \in Transport : ppc[t] = "reply" => reply[t] \in Message /\ TellsMsg(reply[t])
  BY DEF TypeInv, LocalsOK, TrueInv, RepliesTrue
<1>6. Origins
  BY OriginsHold
<1>7. WiresTrue'
  <2> SUFFICES ASSUME NEW u \in Transport, NEW i \in 1 .. Len(wire'[u])
               PROVE  \E m \in Message : m = wire'[u][i] /\ TellsMsg(m)'
    BY DEF WiresTrue, TellsMsg, Tells, IsResponse
  <2>1. wire'[u][i] \in Message /\ TellsMsg(wire'[u][i])
    BY <1>3, <1>4, <1>5, <1>6 DEF Origins
  <2> QED BY <1>2, <2>1
<1>8. InboxesTrue'
  <2> SUFFICES ASSUME NEW u \in Transport, NEW i \in 1 .. Len(inbox'[u])
               PROVE  \E m \in Message : m = inbox'[u][i] /\ TellsMsg(m)'
    BY DEF InboxesTrue, TellsMsg, Tells, IsResponse
  <2>1. inbox'[u][i] \in Message /\ TellsMsg(inbox'[u][i])
    BY <1>3, <1>6 DEF Origins
  <2> QED BY <1>2, <2>1
<1> QED BY <1>7, <1>8

(* rpc_handle_request answers what it did. *)
LEMMA RepliesStayTrue ==
  ASSUME NonEmptyNames, TypeInv, SentInv, SentInv', TrueInv, [Next]_vars
  PROVE  RepliesTrue'
<1> USE DEF TypeInv, TypeOK, PollTypes
<1>1. \A m \in Message : TellsMsg(m) => TellsMsg(m)'
  <2> SUFFICES ASSUME NEW m \in Message, IsResponse(m), Tells(m.id, m.status)
               PROVE  Tells(m.id, m.status)'
    BY DEF TellsMsg, IsResponse
  <2>1. m.id \in CallId
    BY DEF Message
  <2> QED BY <2>1, EffectsGrow
<1>2. ASSUME \A u \in Transport : ppc'[u] = "reply" => ppc[u] = "reply" /\ reply'[u] = reply[u]
      PROVE  RepliesTrue'
  <2> SUFFICES ASSUME NEW u \in Transport, ppc'[u] = "reply"
               PROVE  \E m \in Message : m = reply'[u] /\ TellsMsg(m)'
    BY DEF RepliesTrue, TellsMsg, Tells, IsResponse
  <2>1. ppc[u] = "reply" /\ reply'[u] = reply[u]
    BY <1>2
  <2>2. reply[u] \in Message /\ TellsMsg(reply[u])
    BY <2>1 DEF LocalsOK, TrueInv, RepliesTrue
  <2> QED BY <1>1, <2>1, <2>2
<1>3. ASSUME NEW t \in Transport, NEW x \in CallId, NEW st, Tells(x, st)',
             ppc' = [ppc EXCEPT ![t] = "reply"],
             reply'[t].id = x, reply'[t].status = st,
             \A u \in Transport \ {t} : reply'[u] = reply[u]
      PROVE  RepliesTrue'
  <2> SUFFICES ASSUME NEW u \in Transport, ppc'[u] = "reply"
               PROVE  TellsMsg(reply[u])'
    BY DEF RepliesTrue
  <2>1. CASE u = t
    BY <1>3, <2>1 DEF TellsMsg, Tells
  <2>2. CASE u # t
    <3>1. ppc[u] = "reply" /\ reply'[u] = reply[u]
      BY <1>3, <2>2
    <3>2. reply[u] \in Message /\ TellsMsg(reply[u])
      BY <3>1 DEF LocalsOK, TrueInv, RepliesTrue
    <3>3. PICK m \in Message : m = reply[u]
      BY <3>2
    <3>4. TellsMsg(m)' /\ m = reply'[u]
      BY <1>1, <3>1, <3>2, <3>3
    <3> QED BY <3>4 DEF TellsMsg, Tells, IsResponse
  <2> QED BY <2>1, <2>2
<1>4. ASSUME NEW t \in Transport, RequestRefused(t) PROVE RepliesTrue'
  <2>1. PICK st \in {1, 2} : Answer(t, Head(inbox[t]), st)
    BY <1>4 DEF RequestRefused, RPC_STATUS_INVALID_PARAMS, RPC_STATUS_METHOD_NOT_FOUND
  <2>2. PICK x \in CallId : x = Head(inbox[t]).id
    BY <1>4, MessageAtHead DEF RequestRefused, Message
  <2>3. Tells(x, st)'
    BY <1>4, <2>2 DEF RequestRefused, Tells
  <2> QED BY <1>3, <2>1, <2>2, <2>3 DEF Answer, Response
<1>5. ASSUME NEW t \in Transport, RequestExecuted(t) PROVE RepliesTrue'
  <2>1. PICK st \in {0, 3} : Answer(t, Head(inbox[t]), st)
    BY <1>5 DEF RequestExecuted, RPC_STATUS_OK, RPC_STATUS_INTERNAL_ERROR
  <2>2. PICK x \in CallId : x = Head(inbox[t]).id
    BY <1>5, MessageAtHead DEF RequestExecuted, Message
  <2>3. execs[x] = 0 /\ execs \in [CallId -> Nat] /\ execs' = [execs EXCEPT ![x] = @ + 1]
    BY <1>5, <2>2, RequestSettles DEF RequestExecuted, Fresh, HistTypes
  <2>4. Tells(x, st)'
    BY <2>3 DEF Tells
  <2> QED BY <1>3, <2>1, <2>2, <2>4 DEF Answer, Response
<1>6. ASSUME NEW t \in Transport,
             \/ \E k \in 1 .. ChanCap : Recv(t, k) \/ PollRecv(t, k)
             \/ OnDataLock(t) \/ PollLock(t) \/ PollEmpty(t) \/ OnDataUnlock(t)
             \/ Reply(t) \/ ReplyLost(t)
      PROVE  RepliesTrue'
  <2>1. /\ \E q \in {"recv", "lock", "poll", "loop"} : ppc' = [ppc EXCEPT ![t] = q]
        /\ reply' = reply \/ reply' = [reply EXCEPT ![t] = Null]
    BY <1>6 DEF Recv, PollRecv, OnDataLock, PollLock, PollEmpty, OnDataUnlock, Reply, ReplyLost
  <2> QED BY <1>2, <2>1
<1>7. ASSUME UNCHANGED <<ppc, reply>> PROVE RepliesTrue'
  BY <1>2, <1>7
<1>8. ASSUME NEW c \in Caller,
             \/ \E m \in Name : Lookup(c, m) \/ LookupFails(c, m)
             \/ \E s \in SeqNo : Enter(c, s) \/ EnterNoMem(c, s)
             \/ Send(c) \/ SendFails(c) \/ WaitSignaled(c) \/ WaitBlocks(c)
             \/ WaitWoken(c) \/ WaitTimesOut(c) \/ Leave(c)
      PROVE  UNCHANGED <<ppc, reply>>
  BY <1>8 DEF Lookup, LookupFails, Enter, EnterNoMem, Send, SendFails, WaitSignaled, WaitBlocks,
              WaitWoken, WaitReturns0, WaitTimesOut, Leave, pollVars
<1>9. ASSUME \/ \E x \in Binds : rpc_bind_transport(x[1], x[2], x[3])
             \/ \E x \in Registers : rpc_register_method(x[1], x[2])
             \/ \E t \in Transport : \/ DropNoMem(t) \/ HandleResponse(t) \/ RequestDropped(t)
                                     \/ LinkDown(t)
             \/ UNCHANGED vars
      PROVE  UNCHANGED <<ppc, reply>>
  BY <1>9 DEF rpc_bind_transport, rpc_register_method, DropNoMem, HandleResponse, RequestDropped,
              LinkDown, vars, pollVars
<1> QED BY <1>4, <1>5, <1>6, <1>7, <1>8, <1>9 DEF Next

(* rpc_handle_response records what the response says. *)
LEMMA AnswersStayTrue ==
  ASSUME NonEmptyNames, TypeInv, SentInv, SentInv', TrueInv, [Next]_vars
  PROVE  AnswersTrue'
<1> USE DEF TypeInv, TypeOK, CallerTypes
<1>1. \A i \in CallId : \A st : Tells(i, st) => Tells(i, st)'
  BY EffectsGrow
<1>2. ASSUME NEW d \in Caller, call'[d].done => call[d].done,
             call'[d].from = call[d].from, call'[d].status = call[d].status, call'[d].done
      PROVE  call'[d].from \in CallId /\ Tells(call[d].from, call[d].status)'
  <2>1. call[d].from \in CallId /\ Tells(call[d].from, call[d].status)
    BY <1>2 DEF TrueInv, AnswersTrue
  <2>2. PICK i, st : i \in CallId /\ i = call[d].from /\ st = call[d].status
    BY <2>1
  <2>3. i \in CallId /\ Tells(i, st)' /\ i = call'[d].from /\ st = call'[d].status
    BY <1>1, <1>2, <2>1, <2>2
  <2> QED BY <2>3 DEF Tells
<1>3. ASSUME NEW c \in Caller, \A d \in Caller \ {c} : call'[d] = call[d],
             call'[c].done => call'[c].from \in CallId /\ Tells(call[c].from, call[c].status)'
      PROVE  AnswersTrue'
  BY <1>2, <1>3 DEF AnswersTrue
<1>4. ASSUME call' = call PROVE AnswersTrue'
  BY <1>2, <1>4 DEF AnswersTrue
<1>5. ASSUME NEW c \in Caller, \E m \in Name : Lookup(c, m) \/ LookupFails(c, m)
      PROVE  AnswersTrue'
  <2>1. ~call'[c].done /\ \A d \in Caller \ {c} : call'[d] = call[d]
    BY <1>5 DEF Lookup, LookupFails, NewCall
  <2> QED BY <1>3, <2>1
<1>6. ASSUME NEW c \in Caller,
             \/ \E s \in SeqNo : Enter(c, s)
             \/ WaitSignaled(c) \/ WaitWoken(c) \/ WaitTimesOut(c)
      PROVE  AnswersTrue'
  <2>1. /\ \A d \in Caller \ {c} : call'[d] = call[d]
        /\ call'[c].done = call[c].done /\ call'[c].from = call[c].from
        /\ call'[c].status = call[c].status
    <3>1. \/ \E s \in SeqNo : call' = [call EXCEPT ![c] = [call[c] EXCEPT !.seq = s]]
          \/ call' = [call EXCEPT ![c] = [call[c] EXCEPT !.signaled = FALSE, !.wait_ret = 0]]
          \/ call' = [call EXCEPT ![c] = [call[c] EXCEPT !.wait_ret = -1]]
      BY <1>6 DEF Enter, WaitSignaled, WaitWoken, WaitReturns0, WaitTimesOut
    <3>2. call[c] \in CallState
      OBVIOUS
    <3>3. \A d \in Caller \ {c} : call'[d] = call[d]
      BY <3>1
    <3>4. \/ \E s \in SeqNo : call'[c] = [call[c] EXCEPT !.seq = s]
          \/ call'[c] = [call[c] EXCEPT !.signaled = FALSE, !.wait_ret = 0]
          \/ call'[c] = [call[c] EXCEPT !.wait_ret = -1]
      BY <3>1
    <3> QED BY <3>2, <3>3, <3>4 DEF CallState
  <2> QED BY <1>2, <1>3, <2>1
<1>7. ASSUME NEW c \in Caller,
             \/ \E s \in SeqNo : EnterNoMem(c, s)
             \/ Send(c) \/ SendFails(c) \/ WaitBlocks(c) \/ Leave(c)
      PROVE  call' = call
  BY <1>7 DEF EnterNoMem, Send, SendFails, WaitBlocks, Leave
<1>8. ASSUME NEW t \in Transport, HandleResponse(t) PROVE AnswersTrue'
  <2>1. PICK msg \in Message : msg = Head(inbox[t])
    BY <1>8, MessageAtHead DEF HandleResponse
  <2>2. PICK c : c = g_pending[owner[t]][msg.seq]
    OBVIOUS
  <2>3. /\ IsResponse(msg)
        /\ c = Null => call' = call
        /\ c # Null => Deliver(c, msg)
    BY <1>8, <2>1, <2>2 DEF HandleResponse
  <2>4. c \in Caller \cup {Null}
    BY <2>1, <2>2, TopologyAssumption DEF NodeTypes, Message
  <2>5. msg.id \in CallId /\ Tells(msg.id, msg.status)
    <3>1. msg = inbox[t][1] /\ 1 \in 1 .. Len(inbox[t])
      BY <1>8, <2>1 DEF HandleResponse, AtMessage, PollTypes
    <3> QED BY <2>3, <3>1 DEF TrueInv, InboxesTrue, TellsMsg, Message
  <2>6. CASE c = Null
    BY <1>4, <2>3, <2>6
  <2>7. CASE c # Null
    <3>1. /\ \A d \in Caller \ {c} : call'[d] = call[d]
          /\ call'[c].from = msg.id /\ call'[c].status = msg.status
      <4>1. c \in Caller /\ call[c] \in CallState /\ Deliver(c, msg)
        BY <2>3, <2>4, <2>7
      <4> QED BY <4>1 DEF Deliver, CallState
    <3>2. Tells(msg.id, msg.status)'
      BY <1>1, <2>5
    <3>3. Tells(call[c].from, call[c].status)'
      BY <3>1, <3>2 DEF Tells
    <3> QED BY <1>3, <2>4, <2>5, <2>7, <3>1, <3>3
  <2> QED BY <2>6, <2>7
<1> QED BY <1>4, <1>5, <1>6, <1>7, <1>8, OthersKeepPending DEF Next

(* What a step can do to results: a call is given up, or leaves with its   *)
(* status if rpc_waiter_wait returned 0, and with TIMEOUT otherwise.       *)
ResultStep ==
  \/ ret' = ret
  \/ \E i \in CallId : /\ i \in refused'
                       /\ ret' = [ret EXCEPT ![i] = -4] \/ ret' = [ret EXCEPT ![i] = -3]
  \/ \E c \in Caller : /\ cpc[c] = "leave" /\ Id(c) \in CallId
                       /\ ret' = [ret EXCEPT ![Id(c)] = IF call[c].wait_ret = 0 THEN call[c].status ELSE 5]
                       /\ issued' = issued

LEMMA NextResultStep == ASSUME TypeInv, [Next]_vars PROVE ResultStep
<1>1. ASSUME NEW c \in Caller, Leave(c) PROVE ResultStep
  <2>1. cpc[c] = "leave" /\ Id(c) \in CallId
    BY <1>1, IdType DEF Leave
  <2> QED BY <1>1, <2>1 DEF Leave, Return, ResultStep, RPC_STATUS_TIMEOUT, histVars
<1>2. ASSUME NEW c \in Caller,
             \/ \E m \in Name : LookupFails(c, m)
             \/ \E s \in SeqNo : EnterNoMem(c, s)
             \/ SendFails(c)
      PROVE  ResultStep
  <2>1. PICK i \in CallId : /\ refused' = refused \cup {i}
                            /\ ret' = [ret EXCEPT ![i] = -4] \/ ret' = [ret EXCEPT ![i] = -3]
    BY <1>2, CallerGivesUp
  <2> QED BY <2>1 DEF ResultStep
<1>3. ASSUME NEW c \in Caller,
             \/ \E m \in Name : Lookup(c, m)
             \/ \E s \in SeqNo : Enter(c, s)
             \/ Send(c) \/ WaitSignaled(c) \/ WaitBlocks(c) \/ WaitWoken(c) \/ WaitTimesOut(c)
      PROVE  ret' = ret
  BY <1>3 DEF Lookup, Enter, Send, WaitSignaled, WaitBlocks, WaitWoken, WaitReturns0, WaitTimesOut
<1>4. ASSUME NEW t \in Transport,
             \/ \E k \in 1 .. ChanCap : Recv(t, k) \/ PollRecv(t, k)
             \/ OnDataLock(t) \/ PollLock(t) \/ PollEmpty(t) \/ DropNoMem(t) \/ HandleResponse(t)
             \/ RequestDropped(t) \/ RequestRefused(t) \/ RequestExecuted(t)
             \/ Reply(t) \/ ReplyLost(t) \/ OnDataUnlock(t) \/ LinkDown(t)
      PROVE  ret' = ret
  BY <1>4 DEF Recv, PollRecv, OnDataLock, PollLock, PollEmpty, DropNoMem, HandleResponse,
              RequestDropped, RequestRefused, RequestExecuted, Reply, ReplyLost, OnDataUnlock,
              LinkDown, callerVars
<1>5. (\E x \in Binds : rpc_bind_transport(x[1], x[2], x[3]))
      \/ (\E x \in Registers : rpc_register_method(x[1], x[2])) \/ UNCHANGED vars
      => ret' = ret
  BY DEF rpc_bind_transport, rpc_register_method, vars, callerVars
<1> QED BY <1>1, <1>2, <1>3, <1>4, <1>5 DEF Next, ResultStep

LEMMA IssuedGrows == ASSUME TypeInv, [Next]_vars PROVE Grows
<1>1. ASSUME NEW c \in Caller, NEW s \in SeqNo, Enter(c, s) \/ EnterNoMem(c, s) PROVE Grows
  <2>1. /\ Id(c) \in CallId /\ issued \in [Node -> Seq(CallId)]
        /\ issued' = [issued EXCEPT ![home[c]] = Append(@, Id(c))]
    BY <1>1, IdType DEF Enter, EnterNoMem, DrawSeq, TypeInv, TypeOK, HistTypes
  <2> QED BY <2>1 DEF Grows
<1>2. ASSUME issued' = issued PROVE Grows
  BY <1>2 DEF Grows
<1>3. ASSUME NEW c \in Caller,
             \/ \E m \in Name : Lookup(c, m) \/ LookupFails(c, m)
             \/ Send(c) \/ SendFails(c) \/ WaitSignaled(c) \/ WaitBlocks(c)
             \/ WaitWoken(c) \/ WaitTimesOut(c) \/ Leave(c)
      PROVE  issued' = issued
  BY <1>3 DEF Lookup, LookupFails, Send, SendFails, WaitSignaled, WaitBlocks,
              WaitWoken, WaitReturns0, WaitTimesOut, Leave, histVars
<1>4. ASSUME NEW t \in Transport,
             \/ \E k \in 1 .. ChanCap : Recv(t, k) \/ PollRecv(t, k)
             \/ OnDataLock(t) \/ PollLock(t) \/ PollEmpty(t) \/ DropNoMem(t) \/ HandleResponse(t)
             \/ RequestDropped(t) \/ RequestRefused(t) \/ RequestExecuted(t)
             \/ Reply(t) \/ ReplyLost(t) \/ OnDataUnlock(t) \/ LinkDown(t)
      PROVE  issued' = issued
  BY <1>4 DEF Recv, PollRecv, OnDataLock, PollLock, PollEmpty, DropNoMem, HandleResponse,
              RequestDropped, RequestRefused, RequestExecuted, Reply, ReplyLost, OnDataUnlock,
              LinkDown, histVars
<1>5. (\E x \in Binds : rpc_bind_transport(x[1], x[2], x[3]))
      \/ (\E x \in Registers : rpc_register_method(x[1], x[2])) \/ UNCHANGED vars
      => issued' = issued
  BY DEF rpc_bind_transport, rpc_register_method, vars, histVars
<1> QED BY <1>1, <1>2, <1>3, <1>4, <1>5 DEF Next

(* A call that leaves with a status has the answer to its own request, and *)
(* that status is true of it.                                              *)
LEMMA LeaveTells ==
  ASSUME NonEmptyNames, TypeInv, AnswerInv, WakeInv, TrueInv, NEW c \in Caller,
         cpc[c] = "leave", call[c].wait_ret = 0, Unwrapped(home[c])
  PROVE  Tells(Id(c), call[c].status)
<1>1. call[c].done
  BY DEF WakeInv, WakeOK
<1>2. call[c].from = Id(c)
  BY <1>1 DEF AnswerInv, AnswersOK
<1> QED BY <1>1, <1>2 DEF TrueInv, AnswersTrue

LEMMA ResultsStayTrue ==
  ASSUME NonEmptyNames, TypeInv, AnswerInv, WakeInv, SentInv, SentInv', TrueInv, [Next]_vars
  PROVE  ResultsTrue'
<1> USE DEF TypeInv, TypeOK, CallerTypes
<1> SUFFICES ASSUME NEW i \in CallId, Unwrapped(home[i[1]])' PROVE ResultTrue(i)'
  BY DEF ResultsTrue, Unwrapped
<1>1. home[i[1]] \in Node
  BY TopologyAssumption DEF CallId
<1>2. Unwrapped(home[i[1]])
  BY <1>1, IssuedGrows, OwnsGrows
<1>3. ResultTrue(i)
  BY <1>2 DEF TrueInv, ResultsTrue
<1>4. (execs[i] = 1 => execs'[i] = 1) /\ (i \in refused => i \in refused')
  BY EffectsGrow
<1>5. CASE ret'[i] = ret[i]
  BY <1>3, <1>4, <1>5 DEF ResultTrue
<1>6. CASE ret'[i] \in {-3, -4} /\ i \in refused'
  BY <1>6 DEF ResultTrue
<1>7. ASSUME NEW c \in Caller, cpc[c] = "leave", i = Id(c),
             ret'[i] = IF call[c].wait_ret = 0 THEN call[c].status ELSE 5
      PROVE  ResultTrue(i)'
  <2>1. i[1] = c
    BY <1>7 DEF Id
  <2>2. CASE call[c].wait_ret = 0
    <3>1. Tells(Id(c), call[c].status)
      BY <1>2, <1>7, <2>1, <2>2, LeaveTells
    <3>2. /\ call[c].status \in {0, 3} => execs[i] = 1
          /\ call[c].status \in {1, 2} => i \in refused
          /\ call[c].status \in 0 .. 3
      BY <1>7, <3>1 DEF Tells
    <3> QED BY <1>4, <1>7, <2>2, <3>2 DEF ResultTrue
  <2>3. CASE call[c].wait_ret # 0
    BY <1>7, <2>3 DEF ResultTrue
  <2> QED BY <2>2, <2>3
<1>8. \/ ret'[i] = ret[i]
      \/ ret'[i] \in {-3, -4} /\ i \in refused'
      \/ \E c \in Caller : /\ cpc[c] = "leave" /\ i = Id(c)
                           /\ ret'[i] = IF call[c].wait_ret = 0 THEN call[c].status ELSE 5
  <2>1. ResultStep
    BY NextResultStep
  <2> QED BY <2>1 DEF ResultStep
<1> QED BY <1>5, <1>6, <1>7, <1>8

LEMMA TrueNext ==
  TypeInv /\ AnswerInv /\ WakeInv /\ SentInv /\ SentInv' /\ TrueInv /\ [Next]_vars => TrueInv'
BY MessagesTrue, RepliesStayTrue, AnswersStayTrue, ResultsStayTrue DEF TrueInv, NonEmptyNames

CallInv == TypeInv /\ PendingExact /\ AnswerInv /\ WakeInv /\ RetInv /\ ReplyInv /\ SentInv /\ TrueInv

LEMMA CallInvariant == Spec => []CallInv
<1>1. Init => CallInv
  BY TypeInit, PendingInit, AnswerInit, WakeInit, RetInit, ReplyInit, SentInit, TrueInit DEF CallInv
<1>2. CallInv /\ [Next]_vars => CallInv'
  BY TypeNext, PendingNext, AnswerNext, WakeNext, RetNext, ReplyNext, SentNext, TrueNext DEF CallInv
<1> QED BY <1>1, <1>2, PTL DEF Spec

(* The result of rpc_call_with_tlv is true in every reachable state: OK    *)
(* and INTERNAL_ERROR only for a call whose handler ran, the other errors  *)
(* only for a call whose handler did not and never will, as long as the    *)
(* caller's node has not reused a sequence number.                         *)
THEOREM OutcomeTruthfulHolds == Spec => []OutcomeTruthful
<1>1. CallInv => OutcomeTruthful
  BY DEF CallInv, TrueInv, ResultsTrue, ResultTrue, OutcomeTruthful, RPC_STATUS_OK,
         RPC_STATUS_INTERNAL_ERROR, RPC_STATUS_METHOD_NOT_FOUND, RPC_STATUS_INVALID_PARAMS,
         RPC_STATUS_TRANSPORT_ERROR
<1> QED BY <1>1, CallInvariant, PTL

-----------------------------------------------------------------------------
(* The refinement of CallContract: a step of rpc.c begins a call, settles  *)
(* it on the remote side, returns it, or is invisible to the application.  *)

(* No node has come back to a sequence number it gave out. *)
NoWrap == \A n \in Node : Unwrapped(n)

LEMMA ContractInit == Init => Contract!Init
<1> SUFFICES ASSUME Init PROVE Contract!Init
  OBVIOUS
<1>1. \A i \in CallId : ~(i[2] <= ncalls[i[1]])
  BY SizeAssumption DEF Init, CallId
<1>2. Begun = {}
  BY <1>1 DEF Begun
<1> QED BY <1>2 DEF Init, Contract!Init

(* Begun grows by the call that a thread makes. *)
LEMMA BegunGrows ==
  ASSUME TypeInv, NEW c \in Caller, cpc[c] = "idle", ncalls[c] < MaxCalls,
         ncalls' = [ncalls EXCEPT ![c] = @ + 1]
  PROVE  /\ <<c, ncalls[c] + 1>> \in CallId \ Begun
         /\ Begun' = Begun \cup {<<c, ncalls[c] + 1>>}
<1>1. ncalls \in [Caller -> 0 .. MaxCalls] /\ ncalls[c] \in Nat
  BY SizeAssumption DEF TypeInv, TypeOK, CallerTypes
<1>2. <<c, ncalls[c] + 1>> \in CallId \ Begun
  BY <1>1, SizeAssumption DEF CallId, Begun
<1>3. \A i \in CallId : i \in Begun' <=> i \in Begun \/ i = <<c, ncalls[c] + 1>>
  <2> SUFFICES ASSUME NEW i \in CallId
               PROVE  i[2] <= ncalls'[i[1]] <=> i[2] <= ncalls[i[1]] \/ i = <<c, ncalls[c] + 1>>
    BY DEF Begun
  <2>1. i[1] \in Caller /\ i[2] \in Nat /\ i = <<i[1], i[2]>> /\ ncalls[i[1]] \in Nat
    BY <1>1, SizeAssumption DEF CallId
  <2>2. CASE i[1] = c
    BY <1>1, <2>1, <2>2
  <2>3. CASE i[1] # c
    BY <1>1, <2>1, <2>3
  <2> QED BY <2>2, <2>3
<1> QED BY <1>2, <1>3 DEF Begun

LEMMA ContractNext ==
  ASSUME NonEmptyNames, NoWrap, CallInv, CallInv', [Next]_vars
  PROVE  [Contract!Next]_(Contract!vars)
<1> USE DEF CallInv
<1> DEFINE Bar == [Contract!Next]_(Contract!vars)
<1>0. /\ execs \in [CallId -> Nat] /\ refused \subseteq CallId
      /\ ncalls \in [Caller -> 0 .. MaxCalls] /\ \A c \in Caller : ncalls[c] \in Nat
  BY SizeAssumption DEF TypeInv, TypeOK, CallerTypes, HistTypes
<1>1. ASSUME UNCHANGED <<ncalls, execs, refused, ret>> PROVE Bar
  BY <1>1 DEF Contract!vars, Begun
<1>2. ASSUME NEW c \in Caller, NEW m \in Name, Lookup(c, m) PROVE Bar
  <2>1. /\ cpc[c] = "idle" /\ ncalls[c] < MaxCalls
        /\ ncalls' = [ncalls EXCEPT ![c] = @ + 1]
        /\ UNCHANGED <<execs, refused, ret>>
    BY <1>2 DEF Lookup, histVars
  <2>2. PICK i \in CallId : i = <<c, ncalls[c] + 1>> /\ i \notin Begun /\ Begun' = Begun \cup {i}
    BY <2>1, BegunGrows
  <2>3. Contract!Begin(i)
    BY <2>1, <2>2 DEF Contract!Begin
  <2> QED BY <2>3 DEF Contract!Next
<1>3. ASSUME NEW c \in Caller,
             \/ \E m \in Name : LookupFails(c, m)
             \/ \E s \in SeqNo : EnterNoMem(c, s)
             \/ SendFails(c)
      PROVE  Bar
  <2>1. PICK i \in CallId :
          /\ i = <<c, ncalls'[c]>> /\ Unsent(i)
          /\ refused' = refused \cup {i}
          /\ ret' = [ret EXCEPT ![i] = -4] \/ ret' = [ret EXCEPT ![i] = -3]
          /\ execs' = execs
    BY <1>3, CallerGivesUp
  <2>2. execs[i] = 0
    BY <2>1 DEF SentInv, UnsentFresh, Fresh
  <2>3. \/ /\ cpc[c] = "idle" /\ ncalls[c] < MaxCalls
           /\ ncalls' = [ncalls EXCEPT ![c] = @ + 1]
        \/ cpc[c] # "idle" /\ ncalls' = ncalls
    BY <1>3 DEF LookupFails, EnterNoMem, SendFails
  <2>4. ret[i] = Null
    <3>1. i[1] = c /\ i[2] = ncalls'[c]
      BY <2>1
    <3>2. cpc[c] = "idle" => i[2] > ncalls[c]
      BY <1>0, <2>3, <3>1
    <3>3. cpc[c] # "idle" => i[2] = ncalls[c]
      BY <2>3, <3>1
    <3>4. ncalls[c] \in Nat /\ i[2] \in Nat
      BY <1>0, SizeAssumption DEF CallId
    <3>5. ret[i] # Null => i[2] <= ncalls[c] /\ (cpc[c] # "idle" => i[2] < ncalls[c])
      BY <3>1 DEF RetInv
    <3> QED BY <3>2, <3>3, <3>4, <3>5
  <2>5. Begun' = Begun \cup {i}
    <3>1. CASE cpc[c] = "idle"
      <4>1. i = <<c, ncalls[c] + 1>>
        BY <1>0, <2>1, <2>3, <3>1
      <4> QED BY <2>3, <3>1, <4>1, BegunGrows
    <3>2. CASE cpc[c] # "idle"
      <4>1. ncalls' = ncalls /\ i \in Begun
        BY <1>0, <2>1, <2>3, <3>2 DEF Begun
      <4>2. Begun' = Begun
        BY <4>1 DEF Begun
      <4> QED BY <4>1, <4>2
    <3> QED BY <3>1, <3>2
  <2>6. Contract!Fail(i)
    BY <2>1, <2>2, <2>4, <2>5 DEF Contract!Fail, Contract!NotSent
  <2> QED BY <2>6 DEF Contract!Next
<1>4. ASSUME NEW c \in Caller,
             \/ \E s \in SeqNo : Enter(c, s)
             \/ Send(c) \/ WaitSignaled(c) \/ WaitBlocks(c) \/ WaitWoken(c) \/ WaitTimesOut(c)
      PROVE  UNCHANGED <<ncalls, execs, refused, ret>>
  BY <1>4 DEF Enter, Send, WaitSignaled, WaitBlocks, WaitWoken, WaitReturns0, WaitTimesOut, histVars
<1>5. ASSUME NEW c \in Caller, Leave(c) PROVE Bar
  <2>1. PICK i \in CallId : i = Id(c)
    BY <1>5, IdType DEF Leave
  <2>2. PICK r : r = IF call[c].wait_ret = 0 THEN call[c].status ELSE 5
    OBVIOUS
  <2>3. /\ cpc[c] = "leave" /\ ret' = [ret EXCEPT ![i] = r]
        /\ UNCHANGED <<ncalls, execs, refused>>
    BY <1>5, <2>1, <2>2 DEF Leave, Return, RPC_STATUS_TIMEOUT, histVars
  <2>4. /\ r \in 0 .. 3 \/ r = 5
        /\ r \in {0, 3} => execs[i] = 1
        /\ r \in {1, 2} => i \in refused
    <3>1. CASE call[c].wait_ret = 0
      <4>1. home[c] \in Node
        BY TopologyAssumption
      <4>2. Tells(Id(c), call[c].status)
        BY <2>3, <3>1, <4>1, LeaveTells DEF NoWrap
      <4> QED BY <2>1, <2>2, <3>1, <4>2 DEF Tells
    <3>2. CASE call[c].wait_ret # 0
      BY <2>2, <3>2
    <3> QED BY <3>1, <3>2
  <2>5. i \in Begun /\ Begun' = Begun /\ i[1] = c /\ i[2] = ncalls[c]
    BY <1>0, <2>1, <2>3 DEF Begun, Id
  <2>6. ret[i] = Null
    BY <1>0, <2>3, <2>5 DEF RetInv
  <2>7. Contract!Return(i, r)
    BY <2>3, <2>4, <2>5, <2>6 DEF Contract!Return, Contract!Ran, Contract!NotRun
  <2>8. r \in Contract!Ran \cup Contract!NotRun \cup Contract!NotKnown
    BY <2>4 DEF Contract!Ran, Contract!NotRun, Contract!NotKnown
  <2> QED BY <2>7, <2>8 DEF Contract!Next
<1>6. ASSUME NEW t \in Transport, RequestDropped(t) \/ RequestRefused(t) \/ RequestExecuted(t)
      PROVE  Bar
  <2>1. PICK i \in CallId : i = Head(inbox[t]).id
    BY <1>6, MessageAtHead DEF RequestDropped, RequestRefused, RequestExecuted, Message
  <2>2. execs[i] = 0 /\ i \notin refused /\ ~Unsent(i)
    BY <1>6, <2>1, RequestSettles DEF Fresh
  <2>3. i \in Begun
    <3>1. i[1] \in Caller /\ i[2] \in Nat
      BY SizeAssumption DEF CallId
    <3> QED BY <1>0, <2>2, <3>1 DEF Unsent, Begun
  <2>4. /\ \/ execs' = execs /\ refused' = refused \cup {i}
           \/ execs' = [execs EXCEPT ![i] = @ + 1] /\ refused' = refused
        /\ UNCHANGED <<ncalls, ret>>
    BY <1>6, <2>1 DEF RequestDropped, RequestRefused, RequestExecuted, callerVars
  <2>5. Begun' = Begun
    BY <2>4 DEF Begun
  <2>6. Contract!Refuse(i) \/ Contract!Execute(i)
    BY <1>0, <2>2, <2>3, <2>4, <2>5 DEF Contract!Refuse, Contract!Execute
  <2> QED BY <2>6 DEF Contract!Next
<1>7. ASSUME NEW t \in Transport,
             \/ \E k \in 1 .. ChanCap : Recv(t, k) \/ PollRecv(t, k)
             \/ OnDataLock(t) \/ PollLock(t) \/ PollEmpty(t) \/ DropNoMem(t) \/ HandleResponse(t)
             \/ Reply(t) \/ ReplyLost(t) \/ OnDataUnlock(t) \/ LinkDown(t)
      PROVE  UNCHANGED <<ncalls, execs, refused, ret>>
  BY <1>7 DEF Recv, PollRecv, OnDataLock, PollLock, PollEmpty, DropNoMem, HandleResponse,
              Reply, ReplyLost, OnDataUnlock, LinkDown, callerVars, histVars
<1>8. (\E x \in Binds : rpc_bind_transport(x[1], x[2], x[3]))
      \/ (\E x \in Registers : rpc_register_method(x[1], x[2])) \/ UNCHANGED vars
      => UNCHANGED <<ncalls, execs, refused, ret>>
  BY DEF rpc_bind_transport, rpc_register_method, vars, callerVars, histVars
<1> HIDE DEF Bar
<1>9. Bar
  BY <1>1, <1>2, <1>3, <1>4, <1>5, <1>6, <1>7, <1>8 DEF Next
<1> QED BY <1>9 DEF Bar

(* rpc.c keeps the promise of CallContract, as long as no node's counter   *)
(* wraps: every behaviour of the runtime, seen through the calls begun,    *)
(* executed, given up and returned, is a behaviour of the contract.        *)
THEOREM ContractImplemented ==
  ASSUME NonEmptyNames
  PROVE  Spec /\ []NoWrap => ImplementsContract
<1>1. CallInv /\ CallInv' /\ NoWrap /\ [Next]_vars => [Contract!Next]_(Contract!vars)
  BY ContractNext
<1>2. Spec /\ []NoWrap => [][Contract!Next]_(Contract!vars)
  BY <1>1, CallInvariant, PTL DEF Spec
<1>3. Spec => Contract!Init
  BY ContractInit DEF Spec
<1> QED BY <1>2, <1>3 DEF ImplementsContract, Contract!Spec
=============================================================================
